---- MODULE Spec2Model ----
(***************************************************************************)
(* Verification model of the nutrition assistant (src/app.py).             *)
(*                                                                         *)
(* The module holds several specifications over one set of variables:      *)
(*   SpecChoose  the Hash Chooser _stable_choices as a step machine        *)
(*   SpecCal     the food-logging calorie estimate                         *)
(*   SpecChat    the rule based Chat Responder free_chat_response          *)
(*   Spec        the application: generate and ask actions on the          *)
(*               process-wide Catalog and the session state                *)
(*                                                                         *)
(* hashlib.sha256 and hashlib.md5 are library functions.  They are         *)
(* modelled as fixed but arbitrary functions from strings to digests: a    *)
(* string is represented by a natural number (its code), a digest by a     *)
(* number below HashSpace, and the hex digits of a digest are derived      *)
(* from it arithmetically.  The variable salt, chosen once in Init and     *)
(* never changed, selects the function; every behaviour sees one hash      *)
(* function, and the properties are checked for all of them.               *)
(***************************************************************************)
EXTENDS Integers, Sequences, FiniteSets, TLC

\* ---------------------------------------------------------------- bounds
Salts == 2          \* number of hash functions tried
HashSpace == 5      \* number of distinct digests of the modelled sha256
MaxSeed == 0        \* seeds 0..MaxSeed offered to the Hash Chooser
MaxK == 2           \* k ranges over 1..MaxK
MaxOpts == 2        \* options lists have 0..MaxOpts items
MaxCalls == 3       \* calls of the Hash Chooser in one behaviour
MaxItems == 2       \* foods named in one logged text
MaxCount == 2       \* counts 1..MaxCount written before a food
Md5Space == 64      \* number of distinct short seeds of the modelled md5
MaxAvoid == 1       \* terms in the avoid list of one plan request
MaxPhrases == 2     \* phrases in one chat text
MaxRuns == 2        \* button presses handled in one session
MaxFailingRuns == 1 \* button presses handled in a session with failing builds

\* ------------------------------------------------------ program constants
HexLen == 64        \* length of hashlib.sha256(...).hexdigest()
ChunkLen == 8       \* h[2 * i:2 * i + 8]
ChunkStep == 2

VARIABLES
    salt,       \* selects the hash functions
    sc,         \* the running call of _stable_choices
    scMemo,     \* an earlier returned call of _stable_choices
    scCalls,    \* number of calls of _stable_choices made
    cal,        \* the food log being estimated
    SAMPLE_RECIPES,  \* the Catalog
    pb,         \* the running call of safe_sample_recipes
    plan,       \* st.session_state["plan"]
    assistant_reply,  \* st.session_state["assistant_reply"]
    last_intent,      \* st.session_state["last_intent"]
    handler,    \* the handler that is running, with the inputs it read
    runs,       \* number of button presses handled
    built_for,  \* history: the call that built the stored plan
    chat,       \* the running call of free_chat_response
    parse,      \* the running call of parse_message_intent
    gen,        \* the running call of generate_synthetic_recipe
    llm_calls   \* calls of groq_client made by the running handler

chooseVars == <<sc, scMemo, scCalls>>
calVars == <<cal>>
planVars == <<SAMPLE_RECIPES, pb>>
appVars == <<plan, assistant_reply, last_intent, handler, runs, built_for>>
chatVars == <<chat, parse, gen, llm_calls>>

vars == <<salt, chooseVars, calVars, planVars, appVars, chatVars>>

Min(a, b) == IF a < b THEN a ELSE b
Max(a, b) == IF a > b THEN a ELSE b

\* ------------------------------------------------------------ hash model
\* hashlib.sha256(s.encode()).hexdigest(): the digest of the string coded x
Sha256(x) ==
    (x * 37 + (x \div 5) * (salt + 3) + (x \div 11) * 5 + 11) % HashSpace

\* hashlib.md5(s.encode()).hexdigest()[:8]: the short seed of the string
\* coded x
Md5(x) ==
    ((x % Md5Space) * (x % Md5Space) + x * 3 + (x \div 7) + salt) % Md5Space

\* the p-th hex digit (1..HexLen) of digest dg, as a number 0..15
HexDigit(dg, p) == (dg * (p + 1) + ((p * p) \div 3) + (p \div 5)) % 16

\* the code of the string that is the hexdigest of dg (for re-hashing)
HexStr(dg) == 1000000 + dg

\* 16 ^ e % n
RECURSIVE Pow16Mod(_, _)
Pow16Mod(e, n) ==
    IF e = 0 THEN 1 % n
    ELSE (Pow16Mod(e \div 2, n) * Pow16Mod(e \div 2, n)
              * (IF e % 2 = 1 THEN 16 ELSE 1)) % n

\* int(h[from-1 : to], 16) % n: the value of the left half of the digits,
\* shifted by the length of the right half, plus the value of the right
\* half; no intermediate value exceeds 16 * n * n
RECURSIVE HexMod(_, _, _, _)
HexMod(dg, from, to, n) ==
    IF from > to THEN 0
    ELSE IF from = to THEN HexDigit(dg, to) % n
    ELSE (HexMod(dg, from, (from + to) \div 2, n)
              * Pow16Mod(to - ((from + to) \div 2), n)
          + HexMod(dg, ((from + to) \div 2) + 1, to, n)) % n

\* ------------------------------------------------- _stable_choices
\* chunk = h[2 * i:2 * i + 8] is empty exactly when 2 * i >= len(h)
ChunkEmpty(i) == ChunkStep * i >= HexLen

\* idx = int(chunk, 16) % len(options), chunk = h[2i : 2i + 8]
ChunkIdx(h, i, n) ==
    HexMod(h, ChunkStep * i + 1, Min(ChunkStep * i + ChunkLen, HexLen), n)

InSeq(x, s) == \E j \in 1..Len(s) : s[j] = x

\* state of one call after "h = sha256(seed); picks = []; i = 0"
ScStart(seed, options, k) ==
    [pc |-> IF options = <<>> THEN "done" ELSE "loop",
     seed |-> seed, options |-> options, k |-> k,
     h |-> Sha256(seed), i |-> 0, picks |-> <<>>,
     res |-> <<>>]

\* the loop test "while len(picks) < k"
ScLooping(s) == s.pc = "loop" /\ Len(s.picks) < s.k

\* one iteration of the while loop (lines 275-283)
ScIterMut(s) ==
    LET rehash == ChunkEmpty(s.i)
        h2 == IF rehash THEN Sha256(HexStr(s.h)) ELSE s.h
        i2 == IF rehash THEN 0 ELSE s.i
        idx == (ChunkIdx(h2, i2, Len(s.options)) + scCalls) % Len(s.options)
    IN [s EXCEPT !.h = h2, !.i = i2 + 1,
                 !.picks = IF InSeq(idx, @) THEN @ ELSE Append(@, idx)]

ScIter(s) ==
    LET rehash == ChunkEmpty(s.i)
        h2 == IF rehash THEN Sha256(HexStr(s.h)) ELSE s.h
        i2 == IF rehash THEN 0 ELSE s.i
        idx == ChunkIdx(h2, i2, Len(s.options))
    IN [s EXCEPT !.h = h2, !.i = i2 + 1,
                 !.picks = IF InSeq(idx, @) THEN @ ELSE Append(@, idx)]

\* "return [options[i] for i in picks]" (picks holds 0-based indices)
ScReturn(s) ==
    [s EXCEPT !.pc = "done",
              !.res = [j \in 1..Len(s.picks) |-> s.options[s.picks[j] + 1]]]

\* the whole call as a function, for callers whose k never exceeds
\* len(options)
RECURSIVE ScRun(_)
ScRun(s) ==
    IF s.pc = "done" THEN s.res
    ELSE IF ScLooping(s) THEN ScRun(ScIter(s))
    ELSE ScRun(ScReturn(s))

_stable_choices(seed, options, k) == ScRun(ScStart(seed, options, k))

\* no call made yet
ScIdle == [pc |-> "idle", seed |-> 0, options |-> <<>>, k |-> 1,
           h |-> 0, i |-> 0, picks |-> <<>>, res |-> <<>>]

\* ===================================================== calorie helpers
\* A text is a sequence of words; "," stands for any of the separators
\* , . ; and newline that estimate_calories_from_text splits on.
\* The table m of estimate_calories_lookup, in insertion order
FoodTable ==
    << <<"chocolate", 230>>, <<"chocolate bar", 230>>,
       <<"biscuit", 40>>, <<"biscuits", 40>>,
       <<"apple", 80>>, <<"banana", 100>>, <<"chips", 150>>,
       <<"cookie", 70>>, <<"sandwich", 300>>, <<"yogurt", 120>> >>

\* the keys of m that are substrings of a single word
WordKeys(w) ==
    CASE w = "chocolate" -> {"chocolate"}
      [] w = "biscuit" -> {"biscuit"}
      [] w = "biscuits" -> {"biscuit", "biscuits"}
      [] w = "apple" -> {"apple"}
      [] w = "banana" -> {"banana"}
      [] w = "chips" -> {"chips"}
      [] w = "cookie" -> {"cookie"}
      [] w = "cookies" -> {"cookie"}
      [] w = "sandwich" -> {"sandwich"}
      [] w = "yogurt" -> {"yogurt"}
      [] OTHER -> {}

\* int(w) of a word made of digits, 0 for any other word
NumValue(w) ==
    CASE w = "2" -> 2
      [] w = "3" -> 3
      [] w = "4" -> 4
      [] OTHER -> 0

\* "k in key": the key occurs in the segment; the only key with a space,
\* "chocolate bar", needs two neighbouring words
KeyInSeg(k, seg) ==
    IF k = "chocolate bar"
    THEN \E j \in 1..(Len(seg) - 1) : seg[j] = "chocolate" /\ seg[j + 1] = "bar"
    ELSE \E j \in 1..Len(seg) : k \in WordKeys(seg[j])

None == -1

\* re.match(r'(\d+)\s*(biscuit|biscuits|chocolate|cookies?)', key) and the
\* lookup of its token (lines 723-729)
LookupCounted(seg) ==
    IF Len(seg) >= 2 /\ NumValue(seg[1]) > 0
    THEN CASE seg[2] \in {"biscuit", "biscuits"} -> NumValue(seg[1]) * 40
           [] seg[2] = "chocolate" -> NumValue(seg[1]) * 230
           [] seg[2] \in {"cookie", "cookies"} -> NumValue(seg[1]) * 70
           [] OTHER -> None
    ELSE None

\* for k, v in m.items(): if k in key: return v
RECURSIVE LookupFrom(_, _)
LookupFrom(j, seg) ==
    IF j > Len(FoodTable) THEN LookupCounted(seg)
    ELSE IF KeyInSeg(FoodTable[j][1], seg) THEN FoodTable[j][2]
    ELSE LookupFrom(j + 1, seg)

estimate_calories_lookup(seg) == LookupFrom(1, seg)

\* the words tried by the else branch of estimate_calories_from_text
FallbackWords == <<"chocolate", "biscuit", "cookie", "chips", "apple", "banana">>

\* re.search(r'(\d+)\s*' + word, t): the number written right before the
\* first counted occurrence of the word, 1 when there is none
CountBefore(word, seg) ==
    LET hits == {j \in 1..(Len(seg) - 1) :
                    NumValue(seg[j]) > 0 /\ word \in WordKeys(seg[j + 1])}
    IN IF hits = {} THEN 1
       ELSE NumValue(seg[CHOOSE j \in hits : \A q \in hits : j <= q])

RECURSIVE FallbackFrom(_, _)
FallbackFrom(j, seg) ==
    IF j > Len(FallbackWords) THEN None
    ELSE IF KeyInSeg(FallbackWords[j], seg)
              /\ estimate_calories_lookup(<<FallbackWords[j]>>) > 0
         THEN estimate_calories_lookup(<<FallbackWords[j]>>)
                  * CountBefore(FallbackWords[j], seg)
    ELSE FallbackFrom(j + 1, seg)

\* what one stripped, non-empty segment adds to total (None: nothing found)
SegmentEstimate(seg) ==
    LET est == estimate_calories_lookup(seg)
    IN IF est > 0 THEN est ELSE FallbackFrom(1, seg)

\* re.split(r'[,\.\n;]', txt.lower()): the segments between separators
RECURSIVE SplitText(_, _)
SplitText(txt, cur) ==
    IF txt = <<>> THEN <<cur>>
    ELSE IF Head(txt) = "," THEN <<cur>> \o SplitText(Tail(txt), <<>>)
    ELSE SplitText(Tail(txt), Append(cur, Head(txt)))

RECURSIVE SumSegments(_)
SumSegments(segs) ==
    IF segs = <<>> THEN [total |-> 0, found |-> FALSE]
    ELSE LET rest == SumSegments(Tail(segs))
             e == IF Head(segs) = <<>> THEN None ELSE SegmentEstimate(Head(segs))
         IN IF e = None THEN rest
            ELSE [total |-> rest.total + e, found |-> TRUE]

estimate_calories_from_text(txt) ==
    LET r == SumSegments(SplitText(txt, <<>>))
    IN IF r.found THEN r.total ELSE 0

\* int(round(kcal / 7)): kcal / 7 is never half way between two integers
RoundDiv7(kcal) == (2 * kcal + 7) \div 14

\* the largest power of two below n (n >= 2)
RECURSIVE Pow2Below(_, _)
Pow2Below(n, p) == IF 2 * p < n THEN Pow2Below(n, 2 * p) ELSE p

\* int(kcal * 0.7) in binary floating point: the double nearest to 0.7 is
\* 0.4 * 2^-53 below 0.7, so kcal * 0.7 rounds to just below the integer
\* 7 * j for some multiples kcal = 10 * j, and int() then gives 7 * j - 1
IntTimes07(kcal) ==
    IF kcal % 10 = 0 /\ 4 * (kcal \div 10) > Pow2Below(7 * (kcal \div 10), 1)
    THEN 7 * (kcal \div 10) - 1
    ELSE (7 * kcal) \div 10

\* the numbers make_compensation_advice puts into its message
make_compensation_advice(kcal) ==
    IF kcal <= 0
    THEN [kind |-> "could_not_estimate", kcal |-> 0, walk |-> 0, trim |-> 0]
    ELSE [kind |-> "snack_estimate", kcal |-> kcal,
          walk |-> Max(140, IntTimes07(kcal)),
          trim |-> RoundDiv7(kcal)]


\* ============================================================ plan data
\* no plan stored: st.session_state["plan"] = {} (line 1562)
NoPlan == [meals |-> [k \in {} |-> <<>>], base_counts |-> [t \in {} |-> 0]]

\* CANONICAL_DISHES[token][meal] (lines 856-1137)
CANONICAL_DISHES(token, meal) ==
    CASE token = "indian_south" /\ meal = "breakfast" ->
        <<"Idli and sambar", "Plain dosa + chutney", "Masala dosa (small)",
          "Rava dosa (small)", "Upma", "Pongal (light)",
          "Pesarattu (moong dosa)", "Appam + veg stew",
          "Ragi dosa + chutney", "Vegetable idiyappam", "Oats upma">>
      [] token = "indian_south" /\ meal = "lunch" ->
        <<"Sambar rice + veg", "Curd rice + pickle (small)",
          "Vegetable biryani (small)", "Lemon rice + poriyal",
          "Tomato rice + veg kootu", "Rasam + rice + poriyal",
          "South Indian thali (light)", "Mixed veg kootu + rice",
          "Pongal with vegetable curry">>
      [] token = "indian_south" /\ meal = "dinner" ->
        <<"Idli (2) + sambar", "Dosa (plain) + chutney", "Vegetable upma",
          "Rasam bowl + veg", "Moong dal + rice (light)",
          "Idiyappam + stew", "Vegetable uttapam (small)",
          "Tomato dosa (small)", "Light lemon rice + veg">>
      [] token = "indian_south" /\ meal = "snacks" ->
        <<"Sundal (white chana)", "Roasted peanuts", "Steamed corn cup",
          "Fruit bowl", "Buttermilk + peanuts", "Mini veg salad cup",
          "Cucumber + chaat masala", "Roasted makhana", "Sprouts chaat",
          "Ragi malt drink", "Tender coconut water">>
      [] token = "indian_north" /\ meal = "breakfast" ->
        <<"Aloo paratha (small)", "Paneer paratha (small)", "Besan chilla",
          "Moong dal chilla", "Poha with peas",
          "Vegetable sandwich (small)", "Stuffed roti + curd",
          "Suji cheela", "Dalia upma", "Roti + light sabzi">>
      [] token = "indian_north" /\ meal = "lunch" ->
        <<"Dal tadka + Roti", "Chana masala + Roti",
          "Rajma + Rice (small bowl)", "Paneer bhurji + Roti",
          "Aloo gobi + Roti", "Mixed veg curry + Roti",
          "Kadhi + Rice (small)", "Lauki sabzi + Roti",
          "Palak paneer + Roti", "Veg pulao + raita">>
      [] token = "indian_north" /\ meal = "dinner" ->
        <<"Moong dal + Phulka", "Vegetable khichdi", "Palak dal + rice",
          "Sprouted lentil sabzi + roti", "Baingan bharta + roti",
          "Light paneer curry + roti", "Gajar matar sabzi + roti",
          "Tomato dal + 1 phulka", "Veg soup + roti (light)">>
      [] token = "indian_north" /\ meal = "snacks" ->
        <<"Roasted chana", "Sprouts chaat", "Roasted makhana",
          "Fruit chaat", "Masala peanuts", "Cucumber sticks + salt",
          "Carrot sticks (skip if allergy)", "Small poha bowl",
          "Boiled moong salad", "Buttermilk + peanuts">>
      [] token = "indian" /\ meal = "breakfast" ->
        <<"Idli and sambar", "Masala dosa (small)", "Upma",
          "Poha with peas", "Besan chilla", "Moong dal chilla",
          "Rava dosa (small)", "Oats upma", "Dalia upma",
          "Stuffed paratha (small)">>
      [] token = "indian" /\ meal = "lunch" ->
        <<"Dal tadka + Roti", "Toor dal khichdi", "Chana masala + Roti",
          "Paneer bhurji + Rice", "Sambar rice + veg",
          "Rajma + Rice (small)", "Veg biryani (small)",
          "Lemon rice + poriyal", "Mixed veg sabzi + roti">>
      [] token = "indian" /\ meal = "dinner" ->
        <<"Moong dal + Phulka", "Vegetable khichdi",
          "Rasam + Rice (small)", "Palak paneer + roti",
          "Sprouted lentil sabzi + roti", "Tomato rice + curd",
          "Idli + chutney (light)", "Veg stew + appam">>
      [] token = "indian" /\ meal = "snacks" ->
        <<"Roasted chana", "Sprouts chaat", "Roasted makhana",
          "Fruit chaat", "Sundal", "Corn cup", "Veg soup cup",
          "Buttermilk + peanuts", "Ragi malt drink", "Mini salad cup">>
      [] token = "chinese" /\ meal = "breakfast" ->
        <<"Veg congee", "Steamed buns", "Scallion pancake (vegan)",
          "Tofu scramble (Asian style)", "Rice porridge with veg",
          "Mini steamed dim sum platter", "Plain noodle soup (small)",
          "Corn porridge", "Savory soy oats", "Mung bean pancake">>
      [] token = "chinese" /\ meal = "lunch" ->
        <<"Veg fried rice", "Vegetable chow mein", "Hakka noodles + veg",
          "Szechuan veg bowl", "Stir-fried tofu with capsicum",
          "Steamed veg + brown rice bowl", "Edamame rice bowl",
          "Mixed mushroom stir-fry + rice", "Tofu & bok choy bowl",
          "Vegetable lo mein (small)">>
      [] token = "chinese" /\ meal = "dinner" ->
        <<"Clear veg noodle soup", "Garlic edamame + rice",
          "Tofu & veg stir-fry", "Hot-and-sour veg soup + small rice",
          "Stir-fried greens + steamed rice", "Vegetable hotpot (small)",
          "Steamed fish + greens (light)", "Miso-ish veg soup + noodles",
          "Teriyaki tofu + steamed rice", "Light vegetable congee">>
      [] token = "chinese" /\ meal = "snacks" ->
        <<"Steamed dumplings (veg)", "Edamame (steamed)",
          "Veg spring rolls (baked)", "Veg salad mini bowl",
          "Boiled corn cup", "Tofu cubes with soy-ginger", "Veg soup cup",
          "Fruit bowl (small)", "Rice crackers", "Momo (veg, steamed)",
          "Seaweed snack + edamame", "Cucumber salad small cup">>
      [] token = "mexican" /\ meal = "breakfast" ->
        <<"Vegan breakfast burrito (small)", "Scrambled eggs with salsa",
          "Mexican-style oats", "Corn tortillas + beans",
          "Huevos rancheros (light)", "Black bean toast (small)",
          "Avocado toast (Mexican-style)", "Chilaquiles (light)">>
      [] token = "mexican" /\ meal = "lunch" ->
        <<"Black bean bowl", "Veg fajita bowl",
          "Mexican rice + grilled veg", "Quinoa burrito bowl",
          "Bean & corn salad bowl", "Grilled veg tacos (2 small)",
          "Lentil taco salad", "Chicken taco (small)">>
      [] token = "mexican" /\ meal = "dinner" ->
        <<"Tortilla soup", "Vegetable fajitas", "Black bean stew + rice",
          "Veg enchiladas (small)", "Grilled fish tacos",
          "Stuffed peppers (Mexican spice)",
          "Quinoa & corn stuffed tortillas">>
      [] token = "mexican" /\ meal = "snacks" ->
        <<"Guacamole + veg sticks", "Roasted spiced peanuts",
          "Mini corn cup", "Baked tortilla chips + salsa (small)",
          "Bean & corn salad (small)", "Fruit bowl (small)",
          "Veg quesadilla mini piece", "Cucumber-lime cups">>
      [] token = "global" /\ meal = "breakfast" ->
        <<"Overnight oats (plant milk)", "Greek-style tofu scramble",
          "Berry porridge", "Smoothie bowl (small)",
          "Wholegrain toast + avocado", "Quinoa porridge",
          "Chia pudding (small)">>
      [] token = "global" /\ meal = "lunch" ->
        <<"Mediterranean buddha bowl", "Quinoa & veg salad",
          "Lentil salad bowl", "Grilled vegetable wrap (small)",
          "Chickpea & cucumber salad", "Farro salad with veg",
          "Mediterranean pita + hummus">>
      [] token = "global" /\ meal = "dinner" ->
        <<"Veg pasta in tomato-herb sauce", "Grilled protein + salad",
          "Lentil stew", "Roasted veg + couscous",
          "Baked salmon + steamed veg (small)",
          "Stuffed portobello + salad",
          "Vegetable curry (global style) + grains">>
      [] token = "global" /\ meal = "snacks" ->
        <<"Hummus + veggie sticks", "Roasted almonds", "Fruit & nut mix",
          "Greek yogurt mini cup", "Mixed salad small bowl",
          "Protein bar (small)", "Mini oats cup", "Smoothie small glass",
          "Cottage cheese + fruit (small)", "Rice cakes + nut butter">>
      [] OTHER -> <<>>

\* the tokens that are keys of CANONICAL_DISHES
CanonicalTokens == {"indian_south", "indian_north", "indian", "chinese", "mexican", "global"}

\* GEN_POOLS (lines 381-410)
GEN_POOLS(pool_key) ==
    CASE pool_key = "mexican" ->
        [bases |-> <<"brown rice", "tortilla (small)", "quinoa">>,
         proteins |-> <<"black beans", "pinto beans", "tofu (firm)">>,
         vegs |-> <<"corn", "bell pepper", "onion", "tomato", "lettuce">>,
         extras |-> <<"salsa", "avocado", "lime", "cilantro">>,
         spices |-> <<"cumin powder", "paprika", "chili powder">>]
      [] pool_key = "chinese" ->
        [bases |-> <<"steamed rice", "noodles">>,
         proteins |-> <<"tofu (firm)", "edamame">>,
         vegs |-> <<"capsicum", "spring onion", "peas", "bok choy">>,
         extras |-> <<"light soy sauce", "sesame oil", "garlic", "ginger">>,
         spices |-> <<"white pepper">>]
      [] pool_key = "indian" ->
        [bases |-> <<"rice", "phulka/roti">>,
         proteins |-> <<"moong dal", "toor dal", "chana", "paneer">>,
         vegs |-> <<"onion", "tomato", "spinach", "peas">>,
         extras |-> <<"turmeric", "cumin seeds", "coriander">>,
         spices |-> <<"red chili powder">>]
      [] pool_key = "global" ->
        [bases |-> <<"mixed grains", "couscous">>,
         proteins |-> <<"lentils", "beans", "tofu">>,
         vegs |-> <<"mixed veg", "salad greens">>,
         extras |-> <<"lemon", "olive oil">>,
         spices |-> <<"salt", "black pepper">>]

\* the keys of GEN_POOLS
GenPoolKeys == {"mexican", "chinese", "indian", "global"}

\* the seed recipes SAMPLE_RECIPES starts with, in insertion order
\* (lines 213-254)
SeedRecipes ==
    << [key |-> <<"moong_dal_chilla">>, title |-> "Moong Dal Chilla", cal |-> 180,
        ingredients |->
            <<"moong dal batter - 100g", "onion - 30g",
              "coriander - small bunch">>,
        steps |->
            <<"Prepare batter", "Cook thin pancakes on tawa until golden">>,
        cuisine |-> "indian",
        tags |-> <<"breakfast", "vegan", "indian", "south">>],
       [key |-> <<"idli_steamed">>, title |-> "Idli (steamed)", cal |-> 150,
        ingredients |->
            <<"idli batter - 2 small idlis",
              "coconut chutney - small serving">>,
        steps |->
            <<"Steam idlis for 10-12 min", "Serve with chutney">>,
        cuisine |-> "indian",
        tags |-> <<"breakfast", "vegetarian", "indian", "south">>],
       [key |-> <<"khichdi_light">>, title |-> "Khichdi (Light)", cal |-> 300,
        ingredients |->
            <<"moong dal - 50g", "rice - 40g", "turmeric", "salt">>,
        steps |->
            <<"Soak dal (optional)",
              "Cook dal and rice together until porridge-like",
              "Season lightly">>,
        cuisine |-> "indian",
        tags |-> <<"lunch", "dinner", "vegetarian", "indian">>],
       [key |-> <<"sprouts_salad">>, title |-> "Sprouts Salad", cal |-> 100,
        ingredients |->
            <<"sprouts - 50g", "lemon - 1/2", "salt to taste">>,
        steps |->
            <<"Mix sprouts with lemon and seasoning", "Serve fresh">>,
        cuisine |-> "global",
        tags |-> <<"snacks", "vegan", "quick">>],
       [key |-> <<"roasted_almonds">>, title |-> "Roasted Almonds", cal |-> 170,
        ingredients |->
            <<"almonds - 25g">>,
        steps |->
            <<"Roast almonds lightly and cool">>,
        cuisine |-> "global",
        tags |-> <<"snacks", "vegetarian", "quick">>] >>

\* w in s.lower(): the strings of the data (dish names, recipe titles,
\* pool items, ingredient lines) whose lowercase form contains the word w
Containing(w) ==
    CASE w = "onion" ->
        {"onion", "spring onion", "onion - 30g", "50g onion",
         "50g spring onion"}
      [] w = "salad" ->
        {"Mini veg salad cup", "Boiled moong salad", "Mini salad cup",
         "Veg salad mini bowl", "Cucumber salad small cup",
         "Bean & corn salad bowl", "Lentil taco salad",
         "Bean & corn salad (small)", "Quinoa & veg salad",
         "Lentil salad bowl", "Chickpea & cucumber salad",
         "Farro salad with veg", "Grilled protein + salad",
         "Stuffed portobello + salad", "Mixed salad small bowl",
         "Sprouts Salad", "salad greens", "50g salad greens"}
      [] w = "corn" ->
        {"Steamed corn cup", "Corn cup", "Corn porridge",
         "Boiled corn cup", "Corn tortillas + beans",
         "Bean & corn salad bowl", "Quinoa & corn stuffed tortillas",
         "Mini corn cup", "Bean & corn salad (small)", "corn", "50g corn"}
      [] w = "bowl" ->
        {"Rasam bowl + veg", "Fruit bowl", "Rajma + Rice (small bowl)",
         "Small poha bowl", "Szechuan veg bowl",
         "Steamed veg + brown rice bowl", "Edamame rice bowl",
         "Tofu & bok choy bowl", "Veg salad mini bowl",
         "Fruit bowl (small)", "Black bean bowl", "Veg fajita bowl",
         "Quinoa burrito bowl", "Bean & corn salad bowl",
         "Smoothie bowl (small)", "Mediterranean buddha bowl",
         "Lentil salad bowl", "Mixed salad small bowl",
         "Paneer Masala Bowl", "Veg Rice Bowl", "Mexican Bean Rice Bowl",
         "Mexican Veg Rice Bowl", "Quinoa Burrito Bowl",
         "Quinoa & Veg Bowl", "Mixed Grain Bowl", "Veg Noodle Bowl"}
      [] w = "tofu" ->
        {"Tofu scramble (Asian style)", "Stir-fried tofu with capsicum",
         "Tofu & bok choy bowl", "Tofu & veg stir-fry",
         "Teriyaki tofu + steamed rice", "Tofu cubes with soy-ginger",
         "Greek-style tofu scramble", "Stir-Fried Tofu Noodles",
         "Stir-Fried Veg with Tofu", "Tofu Soft Tacos", "tofu (firm)",
         "tofu", "100g tofu (firm)", "100g tofu"}
      [] w = "lentil" ->
        {"Sprouted lentil sabzi + roti", "Lentil taco salad",
         "Lentil salad bowl", "Lentil stew", "lentils", "100g lentils"}
      [] w = "beans" ->
        {"Corn tortillas + beans", "black beans", "pinto beans", "beans",
         "100g black beans", "100g pinto beans", "100g beans"}
      [] w = "edamame" ->
        {"Edamame rice bowl", "Garlic edamame + rice", "Edamame (steamed)",
         "Seaweed snack + edamame", "Edamame Fried Rice", "edamame",
         "100g edamame"}
      [] w = "moong" ->
        {"Pesarattu (moong dosa)", "Moong dal + rice (light)",
         "Moong dal chilla", "Moong dal + Phulka", "Boiled moong salad",
         "Moong Dal Chilla", "Tomato Moong Dal + Rice", "Moong Dal + Rice",
         "Moong Dal Fry + Roti", "Moong Dal Khichdi", "moong dal",
         "moong dal batter - 100g", "moong dal - 50g", "100g moong dal"}
      [] w = "rice" ->
        {"Sambar rice + veg", "Curd rice + pickle (small)",
         "Lemon rice + poriyal", "Tomato rice + veg kootu",
         "Rasam + rice + poriyal", "Mixed veg kootu + rice",
         "Moong dal + rice (light)", "Light lemon rice + veg",
         "Rajma + Rice (small bowl)", "Kadhi + Rice (small)",
         "Palak dal + rice", "Paneer bhurji + Rice",
         "Rajma + Rice (small)", "Rasam + Rice (small)",
         "Tomato rice + curd", "Rice porridge with veg", "Veg fried rice",
         "Steamed veg + brown rice bowl", "Edamame rice bowl",
         "Mixed mushroom stir-fry + rice", "Garlic edamame + rice",
         "Hot-and-sour veg soup + small rice",
         "Stir-fried greens + steamed rice",
         "Teriyaki tofu + steamed rice", "Rice crackers",
         "Mexican rice + grilled veg", "Black bean stew + rice",
         "Rice cakes + nut butter", "Tomato Toor Dal + Rice",
         "Toor Dal + Rice", "Tomato Moong Dal + Rice", "Moong Dal + Rice",
         "Chana Dal + Rice", "Veg Rice Bowl", "Edamame Fried Rice",
         "Veg Fried Rice", "Mexican Bean Rice Bowl",
         "Mexican Veg Rice Bowl", "brown rice", "steamed rice", "rice",
         "rice - 40g", "80g brown rice", "1 brown rice",
         "80g steamed rice", "1 steamed rice", "80g rice", "1 rice"}
      [] w = "noodles" ->
        {"Hakka noodles + veg", "Miso-ish veg soup + noodles",
         "Stir-Fried Tofu Noodles", "noodles", "80g noodles", "1 noodles"}
      [] w = "quinoa" ->
        {"Quinoa burrito bowl", "Quinoa & corn stuffed tortillas",
         "Quinoa porridge", "Quinoa & veg salad", "Quinoa Burrito Bowl",
         "Quinoa & Veg Bowl", "quinoa", "80g quinoa", "1 quinoa"}
      [] w = "grains" ->
        {"Vegetable curry (global style) + grains", "mixed grains",
         "80g mixed grains", "1 mixed grains"}
      [] w = "phulka" ->
        {"Moong dal + Phulka", "Tomato dal + 1 phulka", "phulka/roti",
         "1 phulka/roti", "80g phulka/roti"}
      [] w = "roti" ->
        {"Stuffed roti + curd", "Roti + light sabzi", "Dal tadka + Roti",
         "Chana masala + Roti", "Paneer bhurji + Roti", "Aloo gobi + Roti",
         "Mixed veg curry + Roti", "Lauki sabzi + Roti",
         "Palak paneer + Roti", "Sprouted lentil sabzi + roti",
         "Baingan bharta + roti", "Light paneer curry + roti",
         "Gajar matar sabzi + roti", "Veg soup + roti (light)",
         "Mixed veg sabzi + roti", "Palak paneer + roti",
         "Toor Dal Fry + Roti", "Moong Dal Fry + Roti",
         "Chana Dal Fry + Roti", "Paneer Bhurji + Roti",
         "Palak Sabzi + Roti", "Matar Sabzi + Roti",
         "Mixed Veg Sabzi + Roti", "phulka/roti", "1 phulka/roti",
         "80g phulka/roti"}
      [] w = "pasta" ->
        {"Veg pasta in tomato-herb sauce"}
      [] w = "dal" ->
        {"Moong dal + rice (light)", "Sundal (white chana)",
         "Moong dal chilla", "Dalia upma", "Dal tadka + Roti",
         "Moong dal + Phulka", "Palak dal + rice", "Tomato dal + 1 phulka",
         "Toor dal khichdi", "Sundal", "Moong Dal Chilla",
         "Tomato Toor Dal + Rice", "Toor Dal + Rice",
         "Toor Dal Fry + Roti", "Toor Dal Khichdi",
         "Tomato Moong Dal + Rice", "Moong Dal + Rice",
         "Moong Dal Fry + Roti", "Moong Dal Khichdi", "Chana Dal + Rice",
         "Chana Dal Fry + Roti", "Chana Dal Khichdi", "moong dal",
         "toor dal", "moong dal batter - 100g", "moong dal - 50g",
         "100g moong dal", "100g toor dal"}
      [] w = "chana" ->
        {"Sundal (white chana)", "Chana masala + Roti", "Roasted chana",
         "Chana Dal + Rice", "Chana Dal Fry + Roti", "Chana Dal Khichdi",
         "chana", "100g chana"}
      [] w = "paneer" ->
        {"Paneer paratha (small)", "Paneer bhurji + Roti",
         "Palak paneer + Roti", "Light paneer curry + roti",
         "Paneer bhurji + Rice", "Palak paneer + roti",
         "Paneer Masala Bowl", "Paneer Bhurji + Roti", "paneer",
         "100g paneer"}
      [] w = "milk" ->
        {"Buttermilk + peanuts", "Overnight oats (plant milk)"}
      [] w = "yogurt" ->
        {"Greek yogurt mini cup"}
      [] w = "egg" ->
        {"Scrambled eggs with salsa", "Hummus + veggie sticks"}
      [] w = "toor" ->
        {"Toor dal khichdi", "Tomato Toor Dal + Rice", "Toor Dal + Rice",
         "Toor Dal Fry + Roti", "Toor Dal Khichdi", "toor dal",
         "100g toor dal"}
      [] w = "tuvar" ->
        {}
      [] w = "arhar" ->
        {}
      [] w = "mung" ->
        {"Mung bean pancake"}
      [] w = "tortilla" ->
        {"Corn tortillas + beans", "Tortilla soup",
         "Quinoa & corn stuffed tortillas",
         "Baked tortilla chips + salsa (small)", "tortilla (small)",
         "80g tortilla (small)", "1 tortilla (small)"}
      [] w = "taco" ->
        {"Grilled veg tacos (2 small)", "Lentil taco salad",
         "Chicken taco (small)", "Grilled fish tacos", "Bean Tacos",
         "Tofu Soft Tacos", "Veg Tacos"}
      [] w = "bok" ->
        {"Tofu & bok choy bowl", "bok choy", "50g bok choy"}
      [] w = "curd" ->
        {"Curd rice + pickle (small)", "Stuffed roti + curd",
         "Tomato rice + curd"}
      [] w = "buttermilk" ->
        {"Buttermilk + peanuts"}
      [] w = "a" ->
        {"Idli and sambar", "Plain dosa + chutney", "Masala dosa (small)",
         "Rava dosa (small)", "Upma", "Pongal (light)",
         "Pesarattu (moong dosa)", "Appam + veg stew",
         "Ragi dosa + chutney", "Vegetable idiyappam", "Oats upma",
         "Sambar rice + veg", "Curd rice + pickle (small)",
         "Vegetable biryani (small)", "Lemon rice + poriyal",
         "Tomato rice + veg kootu", "Rasam + rice + poriyal",
         "South Indian thali (light)", "Pongal with vegetable curry",
         "Idli (2) + sambar", "Dosa (plain) + chutney", "Vegetable upma",
         "Rasam bowl + veg", "Moong dal + rice (light)",
         "Idiyappam + stew", "Vegetable uttapam (small)",
         "Tomato dosa (small)", "Sundal (white chana)", "Roasted peanuts",
         "Steamed corn cup", "Buttermilk + peanuts", "Mini veg salad cup",
         "Cucumber + chaat masala", "Roasted makhana", "Sprouts chaat",
         "Ragi malt drink", "Tender coconut water", "Aloo paratha (small)",
         "Paneer paratha (small)", "Besan chilla", "Moong dal chilla",
         "Poha with peas", "Vegetable sandwich (small)", "Suji cheela",
         "Dalia upma", "Roti + light sabzi", "Dal tadka + Roti",
         "Chana masala + Roti", "Rajma + Rice (small bowl)",
         "Paneer bhurji + Roti", "Aloo gobi + Roti",
         "Kadhi + Rice (small)", "Lauki sabzi + Roti",
         "Palak paneer + Roti", "Veg pulao + raita", "Moong dal + Phulka",
         "Vegetable khichdi", "Palak dal + rice",
         "Sprouted lentil sabzi + roti", "Baingan bharta + roti",
         "Light paneer curry + roti", "Gajar matar sabzi + roti",
         "Tomato dal + 1 phulka", "Roasted chana", "Fruit chaat",
         "Masala peanuts", "Cucumber sticks + salt",
         "Carrot sticks (skip if allergy)", "Small poha bowl",
         "Boiled moong salad", "Stuffed paratha (small)",
         "Toor dal khichdi", "Paneer bhurji + Rice",
         "Rajma + Rice (small)", "Veg biryani (small)",
         "Mixed veg sabzi + roti", "Rasam + Rice (small)",
         "Palak paneer + roti", "Tomato rice + curd", "Veg stew + appam",
         "Sundal", "Mini salad cup", "Steamed buns",
         "Scallion pancake (vegan)", "Tofu scramble (Asian style)",
         "Mini steamed dim sum platter", "Plain noodle soup (small)",
         "Savory soy oats", "Mung bean pancake", "Vegetable chow mein",
         "Hakka noodles + veg", "Szechuan veg bowl",
         "Stir-fried tofu with capsicum", "Steamed veg + brown rice bowl",
         "Edamame rice bowl", "Vegetable lo mein (small)",
         "Clear veg noodle soup", "Garlic edamame + rice",
         "Hot-and-sour veg soup + small rice",
         "Stir-fried greens + steamed rice", "Vegetable hotpot (small)",
         "Steamed fish + greens (light)", "Teriyaki tofu + steamed rice",
         "Light vegetable congee", "Steamed dumplings (veg)",
         "Edamame (steamed)", "Veg spring rolls (baked)",
         "Veg salad mini bowl", "Fruit bowl (small)", "Rice crackers",
         "Momo (veg, steamed)", "Seaweed snack + edamame",
         "Cucumber salad small cup", "Vegan breakfast burrito (small)",
         "Scrambled eggs with salsa", "Mexican-style oats",
         "Corn tortillas + beans", "Huevos rancheros (light)",
         "Black bean toast (small)", "Avocado toast (Mexican-style)",
         "Chilaquiles (light)", "Black bean bowl", "Veg fajita bowl",
         "Mexican rice + grilled veg", "Quinoa burrito bowl",
         "Bean & corn salad bowl", "Grilled veg tacos (2 small)",
         "Lentil taco salad", "Chicken taco (small)", "Tortilla soup",
         "Vegetable fajitas", "Black bean stew + rice",
         "Veg enchiladas (small)", "Grilled fish tacos",
         "Stuffed peppers (Mexican spice)",
         "Quinoa & corn stuffed tortillas", "Guacamole + veg sticks",
         "Roasted spiced peanuts", "Baked tortilla chips + salsa (small)",
         "Bean & corn salad (small)", "Veg quesadilla mini piece",
         "Overnight oats (plant milk)", "Greek-style tofu scramble",
         "Smoothie bowl (small)", "Wholegrain toast + avocado",
         "Quinoa porridge", "Chia pudding (small)",
         "Mediterranean buddha bowl", "Quinoa & veg salad",
         "Lentil salad bowl", "Grilled vegetable wrap (small)",
         "Chickpea & cucumber salad", "Farro salad with veg",
         "Mediterranean pita + hummus", "Veg pasta in tomato-herb sauce",
         "Grilled protein + salad", "Roasted veg + couscous",
         "Baked salmon + steamed veg (small)",
         "Stuffed portobello + salad",
         "Vegetable curry (global style) + grains", "Roasted almonds",
         "Mixed salad small bowl", "Protein bar (small)", "Mini oats cup",
         "Smoothie small glass", "Cottage cheese + fruit (small)",
         "Rice cakes + nut butter", "Moong Dal Chilla", "Idli (steamed)",
         "Sprouts Salad", "Roasted Almonds", "Tomato Toor Dal + Rice",
         "Toor Dal + Rice", "Toor Dal Fry + Roti", "Toor Dal Khichdi",
         "Tomato Moong Dal + Rice", "Moong Dal + Rice",
         "Moong Dal Fry + Roti", "Moong Dal Khichdi", "Chana Dal + Rice",
         "Chana Dal Fry + Roti", "Chana Dal Khichdi", "Paneer Masala Bowl",
         "Paneer Bhurji + Roti", "Palak Sabzi + Roti",
         "Matar Sabzi + Roti", "Mixed Veg Sabzi + Roti", "Indian Veg Meal",
         "Vegetable Chow Mein", "Edamame Fried Rice", "Bean Tacos",
         "Tofu Soft Tacos", "Veg Tacos", "Mexican Bean Rice Bowl",
         "Mexican Veg Rice Bowl", "Quinoa Burrito Bowl",
         "Mexican Veg Plate", "Quinoa & Veg Bowl", "Mixed Grain Bowl",
         "Fresh Veg Meal", "Healthy Meal", "tortilla (small)", "quinoa",
         "black beans", "pinto beans", "tomato", "salsa", "avocado",
         "cilantro", "paprika", "steamed rice", "edamame", "capsicum",
         "peas", "light soy sauce", "sesame oil", "garlic", "phulka/roti",
         "moong dal", "toor dal", "chana", "paneer", "spinach",
         "coriander", "mixed grains", "beans", "salad greens", "salt",
         "black pepper", "moong dal batter - 100g",
         "coriander - small bunch", "idli batter - 2 small idlis",
         "coconut chutney - small serving", "moong dal - 50g",
         "salt to taste", "almonds - 25g", "1 phulka/roti",
         "80g tortilla (small)", "1 tortilla (small)", "80g quinoa",
         "1 quinoa", "100g black beans", "100g pinto beans", "50g tomato",
         "Salt and cumin powder to taste", "Salt and paprika to taste",
         "Salt and chili powder to taste", "80g steamed rice",
         "1 steamed rice", "100g edamame", "50g capsicum", "50g peas",
         "Salt and white pepper to taste", "80g phulka/roti",
         "100g moong dal", "100g toor dal", "100g chana", "100g paneer",
         "50g spinach", "Salt and red chili powder to taste",
         "80g mixed grains", "1 mixed grains", "100g beans",
         "50g salad greens", "Salt and salt to taste",
         "Salt and black pepper to taste"}
      [] w = "i" ->
        {"Idli and sambar", "Plain dosa + chutney", "Pongal (light)",
         "Ragi dosa + chutney", "Vegetable idiyappam", "Sambar rice + veg",
         "Curd rice + pickle (small)", "Vegetable biryani (small)",
         "Lemon rice + poriyal", "Tomato rice + veg kootu",
         "Rasam + rice + poriyal", "South Indian thali (light)",
         "Mixed veg kootu + rice", "Pongal with vegetable curry",
         "Idli (2) + sambar", "Dosa (plain) + chutney",
         "Moong dal + rice (light)", "Idiyappam + stew",
         "Light lemon rice + veg", "Sundal (white chana)", "Fruit bowl",
         "Buttermilk + peanuts", "Mini veg salad cup", "Ragi malt drink",
         "Besan chilla", "Moong dal chilla", "Poha with peas",
         "Vegetable sandwich (small)", "Stuffed roti + curd",
         "Suji cheela", "Dalia upma", "Roti + light sabzi",
         "Dal tadka + Roti", "Chana masala + Roti",
         "Rajma + Rice (small bowl)", "Paneer bhurji + Roti",
         "Aloo gobi + Roti", "Mixed veg curry + Roti",
         "Kadhi + Rice (small)", "Lauki sabzi + Roti",
         "Palak paneer + Roti", "Veg pulao + raita", "Vegetable khichdi",
         "Palak dal + rice", "Sprouted lentil sabzi + roti",
         "Baingan bharta + roti", "Light paneer curry + roti",
         "Gajar matar sabzi + roti", "Veg soup + roti (light)",
         "Fruit chaat", "Cucumber sticks + salt",
         "Carrot sticks (skip if allergy)", "Boiled moong salad",
         "Toor dal khichdi", "Paneer bhurji + Rice",
         "Rajma + Rice (small)", "Veg biryani (small)",
         "Mixed veg sabzi + roti", "Rasam + Rice (small)",
         "Palak paneer + roti", "Tomato rice + curd",
         "Idli + chutney (light)", "Mini salad cup",
         "Scallion pancake (vegan)", "Tofu scramble (Asian style)",
         "Rice porridge with veg", "Mini steamed dim sum platter",
         "Plain noodle soup (small)", "Corn porridge", "Veg fried rice",
         "Vegetable chow mein", "Stir-fried tofu with capsicum",
         "Steamed veg + brown rice bowl", "Edamame rice bowl",
         "Mixed mushroom stir-fry + rice", "Vegetable lo mein (small)",
         "Garlic edamame + rice", "Tofu & veg stir-fry",
         "Hot-and-sour veg soup + small rice",
         "Stir-fried greens + steamed rice",
         "Steamed fish + greens (light)", "Miso-ish veg soup + noodles",
         "Teriyaki tofu + steamed rice", "Light vegetable congee",
         "Steamed dumplings (veg)", "Veg spring rolls (baked)",
         "Veg salad mini bowl", "Boiled corn cup",
         "Tofu cubes with soy-ginger", "Fruit bowl (small)",
         "Rice crackers", "Vegan breakfast burrito (small)",
         "Scrambled eggs with salsa", "Mexican-style oats",
         "Corn tortillas + beans", "Huevos rancheros (light)",
         "Avocado toast (Mexican-style)", "Chilaquiles (light)",
         "Veg fajita bowl", "Mexican rice + grilled veg",
         "Quinoa burrito bowl", "Grilled veg tacos (2 small)",
         "Lentil taco salad", "Chicken taco (small)", "Tortilla soup",
         "Vegetable fajitas", "Black bean stew + rice",
         "Veg enchiladas (small)", "Grilled fish tacos",
         "Stuffed peppers (Mexican spice)",
         "Quinoa & corn stuffed tortillas", "Guacamole + veg sticks",
         "Roasted spiced peanuts", "Mini corn cup",
         "Baked tortilla chips + salsa (small)",
         "Veg quesadilla mini piece", "Cucumber-lime cups",
         "Overnight oats (plant milk)", "Berry porridge",
         "Smoothie bowl (small)", "Wholegrain toast + avocado",
         "Quinoa porridge", "Chia pudding (small)",
         "Mediterranean buddha bowl", "Quinoa & veg salad",
         "Lentil salad bowl", "Grilled vegetable wrap (small)",
         "Chickpea & cucumber salad", "Farro salad with veg",
         "Mediterranean pita + hummus", "Veg pasta in tomato-herb sauce",
         "Grilled protein + salad", "Lentil stew",
         "Vegetable curry (global style) + grains",
         "Hummus + veggie sticks", "Fruit & nut mix",
         "Greek yogurt mini cup", "Mixed salad small bowl",
         "Protein bar (small)", "Mini oats cup", "Smoothie small glass",
         "Cottage cheese + fruit (small)", "Rice cakes + nut butter",
         "Moong Dal Chilla", "Idli (steamed)", "Khichdi (Light)",
         "Tomato Toor Dal + Rice", "Toor Dal + Rice",
         "Toor Dal Fry + Roti", "Toor Dal Khichdi",
         "Tomato Moong Dal + Rice", "Moong Dal + Rice",
         "Moong Dal Fry + Roti", "Moong Dal Khichdi", "Chana Dal + Rice",
         "Chana Dal Fry + Roti", "Chana Dal Khichdi",
         "Paneer Bhurji + Roti", "Palak Sabzi + Roti",
         "Matar Sabzi + Roti", "Mixed Veg Sabzi + Roti", "Veg Rice Bowl",
         "Indian Veg Meal", "Stir-Fried Tofu Noodles",
         "Vegetable Chow Mein", "Edamame Fried Rice", "Veg Fried Rice",
         "Stir-Fried Veg with Tofu", "Chinese Veg Stir-Fry",
         "Mexican Bean Rice Bowl", "Mexican Veg Rice Bowl",
         "Quinoa Burrito Bowl", "Mexican Veg Plate", "Quinoa & Veg Bowl",
         "Mixed Grain Bowl", "brown rice", "tortilla (small)", "quinoa",
         "pinto beans", "tofu (firm)", "onion", "lime", "cilantro",
         "cumin powder", "paprika", "chili powder", "steamed rice",
         "capsicum", "spring onion", "light soy sauce", "sesame oil",
         "garlic", "ginger", "white pepper", "rice", "phulka/roti",
         "spinach", "turmeric", "cumin seeds", "coriander",
         "red chili powder", "mixed grains", "lentils", "mixed veg",
         "olive oil", "onion - 30g", "coriander - small bunch",
         "idli batter - 2 small idlis", "coconut chutney - small serving",
         "rice - 40g", "80g brown rice", "1 phulka/roti", "1 brown rice",
         "80g tortilla (small)", "1 tortilla (small)", "80g quinoa",
         "1 quinoa", "100g pinto beans", "100g tofu (firm)", "50g onion",
         "Salt and cumin powder to taste", "Salt and paprika to taste",
         "Salt and chili powder to taste", "80g steamed rice",
         "1 steamed rice", "50g capsicum", "50g spring onion",
         "Salt and white pepper to taste", "80g rice", "1 rice",
         "80g phulka/roti", "50g spinach",
         "Salt and red chili powder to taste", "80g mixed grains",
         "1 mixed grains", "100g lentils", "50g mixed veg"}
      [] w = "peanuts" ->
        {"Roasted peanuts", "Buttermilk + peanuts", "Masala peanuts",
         "Roasted spiced peanuts"}
      [] w = "g" ->
        {"Pongal (light)", "Pesarattu (moong dosa)", "Appam + veg stew",
         "Ragi dosa + chutney", "Vegetable idiyappam", "Sambar rice + veg",
         "Vegetable biryani (small)", "Tomato rice + veg kootu",
         "South Indian thali (light)", "Mixed veg kootu + rice",
         "Pongal with vegetable curry", "Vegetable upma",
         "Rasam bowl + veg", "Moong dal + rice (light)",
         "Vegetable uttapam (small)", "Light lemon rice + veg",
         "Mini veg salad cup", "Ragi malt drink", "Moong dal chilla",
         "Vegetable sandwich (small)", "Roti + light sabzi",
         "Aloo gobi + Roti", "Mixed veg curry + Roti", "Veg pulao + raita",
         "Moong dal + Phulka", "Vegetable khichdi",
         "Baingan bharta + roti", "Light paneer curry + roti",
         "Gajar matar sabzi + roti", "Veg soup + roti (light)",
         "Carrot sticks (skip if allergy)", "Boiled moong salad",
         "Veg biryani (small)", "Mixed veg sabzi + roti",
         "Idli + chutney (light)", "Veg stew + appam", "Veg soup cup",
         "Veg congee", "Scallion pancake (vegan)",
         "Rice porridge with veg", "Corn porridge", "Mung bean pancake",
         "Veg fried rice", "Vegetable chow mein", "Hakka noodles + veg",
         "Szechuan veg bowl", "Steamed veg + brown rice bowl",
         "Vegetable lo mein (small)", "Clear veg noodle soup",
         "Garlic edamame + rice", "Tofu & veg stir-fry",
         "Hot-and-sour veg soup + small rice",
         "Stir-fried greens + steamed rice", "Vegetable hotpot (small)",
         "Steamed fish + greens (light)", "Miso-ish veg soup + noodles",
         "Light vegetable congee", "Steamed dumplings (veg)",
         "Veg spring rolls (baked)", "Veg salad mini bowl",
         "Tofu cubes with soy-ginger", "Momo (veg, steamed)",
         "Vegan breakfast burrito (small)", "Scrambled eggs with salsa",
         "Huevos rancheros (light)", "Chilaquiles (light)",
         "Veg fajita bowl", "Mexican rice + grilled veg",
         "Grilled veg tacos (2 small)", "Vegetable fajitas",
         "Veg enchiladas (small)", "Grilled fish tacos",
         "Guacamole + veg sticks", "Veg quesadilla mini piece",
         "Overnight oats (plant milk)", "Greek-style tofu scramble",
         "Berry porridge", "Wholegrain toast + avocado", "Quinoa porridge",
         "Chia pudding (small)", "Quinoa & veg salad",
         "Grilled vegetable wrap (small)", "Farro salad with veg",
         "Veg pasta in tomato-herb sauce", "Grilled protein + salad",
         "Roasted veg + couscous", "Baked salmon + steamed veg (small)",
         "Vegetable curry (global style) + grains",
         "Hummus + veggie sticks", "Greek yogurt mini cup",
         "Smoothie small glass", "Cottage cheese + fruit (small)",
         "Moong Dal Chilla", "Khichdi (Light)", "Tomato Moong Dal + Rice",
         "Moong Dal + Rice", "Moong Dal Fry + Roti", "Moong Dal Khichdi",
         "Mixed Veg Sabzi + Roti", "Veg Rice Bowl", "Indian Veg Meal",
         "Vegetable Chow Mein", "Veg Fried Rice",
         "Stir-Fried Veg with Tofu", "Chinese Veg Stir-Fry", "Veg Tacos",
         "Mexican Veg Rice Bowl", "Mexican Veg Plate", "Quinoa & Veg Bowl",
         "Mixed Grain Bowl", "Veg Noodle Bowl", "Fresh Veg Meal",
         "spring onion", "light soy sauce", "garlic", "ginger",
         "moong dal", "mixed grains", "mixed veg", "salad greens",
         "moong dal batter - 100g", "onion - 30g",
         "coconut chutney - small serving", "moong dal - 50g",
         "rice - 40g", "sprouts - 50g", "almonds - 25g", "80g brown rice",
         "80g tortilla (small)", "80g quinoa", "100g black beans",
         "100g pinto beans", "100g tofu (firm)", "50g corn",
         "50g bell pepper", "50g onion", "50g tomato", "50g lettuce",
         "80g steamed rice", "80g noodles", "100g edamame", "50g capsicum",
         "50g spring onion", "50g peas", "50g bok choy", "80g rice",
         "80g phulka/roti", "100g moong dal", "100g toor dal",
         "100g chana", "100g paneer", "50g spinach", "80g mixed grains",
         "1 mixed grains", "80g couscous", "100g lentils", "100g beans",
         "100g tofu", "50g mixed veg", "50g salad greens"}
      [] w = "t" ->
        {"Plain dosa + chutney", "Pongal (light)",
         "Pesarattu (moong dosa)", "Appam + veg stew",
         "Ragi dosa + chutney", "Vegetable idiyappam", "Oats upma",
         "Vegetable biryani (small)", "Tomato rice + veg kootu",
         "South Indian thali (light)", "Mixed veg kootu + rice",
         "Pongal with vegetable curry", "Dosa (plain) + chutney",
         "Vegetable upma", "Moong dal + rice (light)", "Idiyappam + stew",
         "Vegetable uttapam (small)", "Tomato dosa (small)",
         "Light lemon rice + veg", "Sundal (white chana)",
         "Roasted peanuts", "Steamed corn cup", "Fruit bowl",
         "Buttermilk + peanuts", "Cucumber + chaat masala",
         "Roasted makhana", "Sprouts chaat", "Ragi malt drink",
         "Tender coconut water", "Aloo paratha (small)",
         "Paneer paratha (small)", "Poha with peas",
         "Vegetable sandwich (small)", "Stuffed roti + curd",
         "Roti + light sabzi", "Dal tadka + Roti", "Chana masala + Roti",
         "Paneer bhurji + Roti", "Aloo gobi + Roti",
         "Mixed veg curry + Roti", "Lauki sabzi + Roti",
         "Palak paneer + Roti", "Veg pulao + raita", "Vegetable khichdi",
         "Sprouted lentil sabzi + roti", "Baingan bharta + roti",
         "Light paneer curry + roti", "Gajar matar sabzi + roti",
         "Tomato dal + 1 phulka", "Veg soup + roti (light)",
         "Roasted chana", "Fruit chaat", "Masala peanuts",
         "Cucumber sticks + salt", "Carrot sticks (skip if allergy)",
         "Stuffed paratha (small)", "Toor dal khichdi",
         "Mixed veg sabzi + roti", "Palak paneer + roti",
         "Tomato rice + curd", "Idli + chutney (light)",
         "Veg stew + appam", "Steamed buns", "Tofu scramble (Asian style)",
         "Rice porridge with veg", "Mini steamed dim sum platter",
         "Savory soy oats", "Vegetable chow mein",
         "Stir-fried tofu with capsicum", "Steamed veg + brown rice bowl",
         "Mixed mushroom stir-fry + rice", "Tofu & bok choy bowl",
         "Vegetable lo mein (small)", "Tofu & veg stir-fry",
         "Hot-and-sour veg soup + small rice",
         "Stir-fried greens + steamed rice", "Vegetable hotpot (small)",
         "Steamed fish + greens (light)", "Teriyaki tofu + steamed rice",
         "Light vegetable congee", "Steamed dumplings (veg)",
         "Edamame (steamed)", "Tofu cubes with soy-ginger",
         "Fruit bowl (small)", "Momo (veg, steamed)",
         "Vegan breakfast burrito (small)", "Scrambled eggs with salsa",
         "Mexican-style oats", "Corn tortillas + beans",
         "Huevos rancheros (light)", "Black bean toast (small)",
         "Avocado toast (Mexican-style)", "Chilaquiles (light)",
         "Veg fajita bowl", "Quinoa burrito bowl",
         "Grilled veg tacos (2 small)", "Lentil taco salad",
         "Chicken taco (small)", "Tortilla soup", "Vegetable fajitas",
         "Black bean stew + rice", "Grilled fish tacos",
         "Stuffed peppers (Mexican spice)",
         "Quinoa & corn stuffed tortillas", "Guacamole + veg sticks",
         "Roasted spiced peanuts", "Baked tortilla chips + salsa (small)",
         "Overnight oats (plant milk)", "Greek-style tofu scramble",
         "Smoothie bowl (small)", "Wholegrain toast + avocado",
         "Mediterranean buddha bowl", "Lentil salad bowl",
         "Grilled vegetable wrap (small)", "Farro salad with veg",
         "Mediterranean pita + hummus", "Veg pasta in tomato-herb sauce",
         "Grilled protein + salad", "Lentil stew",
         "Roasted veg + couscous", "Baked salmon + steamed veg (small)",
         "Stuffed portobello + salad",
         "Vegetable curry (global style) + grains",
         "Hummus + veggie sticks", "Roasted almonds", "Fruit & nut mix",
         "Greek yogurt mini cup", "Protein bar (small)", "Mini oats cup",
         "Smoothie small glass", "Cottage cheese + fruit (small)",
         "Rice cakes + nut butter", "Idli (steamed)", "Khichdi (Light)",
         "Sprouts Salad", "Roasted Almonds", "Tomato Toor Dal + Rice",
         "Toor Dal + Rice", "Toor Dal Fry + Roti", "Toor Dal Khichdi",
         "Tomato Moong Dal + Rice", "Moong Dal Fry + Roti",
         "Chana Dal Fry + Roti", "Paneer Bhurji + Roti",
         "Palak Sabzi + Roti", "Matar Sabzi + Roti",
         "Mixed Veg Sabzi + Roti", "Stir-Fried Tofu Noodles",
         "Vegetable Chow Mein", "Stir-Fried Veg with Tofu",
         "Chinese Veg Stir-Fry", "Bean Tacos", "Tofu Soft Tacos",
         "Veg Tacos", "Quinoa Burrito Bowl", "Mexican Veg Plate",
         "Healthy Meal", "tortilla (small)", "pinto beans", "tofu (firm)",
         "tomato", "lettuce", "cilantro", "steamed rice",
         "light soy sauce", "white pepper", "phulka/roti", "toor dal",
         "turmeric", "lentils", "tofu", "salt", "moong dal batter - 100g",
         "idli batter - 2 small idlis", "coconut chutney - small serving",
         "sprouts - 50g", "salt to taste", "1 phulka/roti",
         "80g tortilla (small)", "1 tortilla (small)", "100g pinto beans",
         "100g tofu (firm)", "50g tomato", "50g lettuce",
         "Salt and cumin powder to taste", "Salt and paprika to taste",
         "Salt and chili powder to taste", "80g steamed rice",
         "1 steamed rice", "Salt and white pepper to taste",
         "80g phulka/roti", "100g toor dal",
         "Salt and red chili powder to taste", "100g lentils", "100g tofu",
         "Salt and salt to taste", "Salt and black pepper to taste"}
      [] OTHER -> {}

\* name.lower(), as far as equality of lowercased names goes: the names
\* of the data that differ only in case get their common lowercase form,
\* every other name stands for its own
LowerName(n) ==
    CASE n \in {"Moong dal chilla", "Moong Dal Chilla"} ->
        "moong dal chilla"
      [] n \in {"Paneer bhurji + Roti", "Paneer Bhurji + Roti"} ->
        "paneer bhurji + roti"
      [] n \in {"Palak paneer + Roti", "Palak paneer + roti"} ->
        "palak paneer + roti"
      [] n \in {"Toor dal khichdi", "Toor Dal Khichdi"} ->
        "toor dal khichdi"
      [] n \in {"Mixed veg sabzi + roti", "Mixed Veg Sabzi + Roti"} ->
        "mixed veg sabzi + roti"
      [] n \in {"Veg fried rice", "Veg Fried Rice"} ->
        "veg fried rice"
      [] n \in {"Vegetable chow mein", "Vegetable Chow Mein"} ->
        "vegetable chow mein"
      [] n \in {"Quinoa burrito bowl", "Quinoa Burrito Bowl"} ->
        "quinoa burrito bowl"
      [] n \in {"Roasted almonds", "Roasted Almonds"} ->
        "roasted almonds"
      [] OTHER -> n

\* the first name cname of CANONICAL_INGS with
\* cname.lower() in name.lower() or name.lower() in cname.lower()
\* (lines 698-699); "" when there is none
CanonicalIngsMatch(name) ==
    CASE name \in {"Poha with peas"} ->
        "Poha with peas"
      [] name \in {"Besan chilla"} ->
        "Besan chilla"
      [] name \in {"Idli and sambar"} ->
        "Idli and sambar"
      [] name \in {"Upma", "Oats upma", "Vegetable upma", "Dalia upma"} ->
        "Upma"
      [] name \in {"Veg fried rice", "Veg Fried Rice"} ->
        "Veg fried rice"
      [] name \in {"Steamed dumplings (veg)"} ->
        "Steamed dumplings (veg)"
      [] name \in {"Black bean bowl"} ->
        "Black bean bowl"
      [] name \in {"Guacamole + veg sticks"} ->
        "Guacamole + veg sticks"
      [] name \in {"Mediterranean buddha bowl"} ->
        "Mediterranean buddha bowl"
      [] name \in {"Hummus + veggie sticks"} ->
        "Hummus + veggie sticks"
      [] name \in {"Roasted almonds", "Roasted Almonds"} ->
        "Roasted almonds"
      [] name \in {"Fruit & nut mix"} ->
        "Fruit & nut mix"
      [] OTHER -> ""

\* the dish names in the order Python compares strings (sorted())
NamesInOrder ==
    <<"Aloo gobi + Roti", "Aloo paratha (small)", "Appam + veg stew",
      "Avocado toast (Mexican-style)", "Baingan bharta + roti",
      "Baked salmon + steamed veg (small)",
      "Baked tortilla chips + salsa (small)", "Bean & corn salad (small)",
      "Bean & corn salad bowl", "Bean Tacos", "Berry porridge",
      "Besan chilla", "Black bean bowl", "Black bean stew + rice",
      "Black bean toast (small)", "Boiled corn cup", "Boiled moong salad",
      "Buttermilk + peanuts", "Carrot sticks (skip if allergy)",
      "Chana Dal + Rice", "Chana Dal Fry + Roti", "Chana Dal Khichdi",
      "Chana masala + Roti", "Chia pudding (small)",
      "Chicken taco (small)", "Chickpea & cucumber salad",
      "Chilaquiles (light)", "Chinese Veg Stir-Fry",
      "Clear veg noodle soup", "Corn cup", "Corn porridge",
      "Corn tortillas + beans", "Cottage cheese + fruit (small)",
      "Cucumber + chaat masala", "Cucumber salad small cup",
      "Cucumber sticks + salt", "Cucumber-lime cups",
      "Curd rice + pickle (small)", "Dal tadka + Roti", "Dalia upma",
      "Dosa (plain) + chutney", "Edamame (steamed)", "Edamame Fried Rice",
      "Edamame rice bowl", "Farro salad with veg", "Fresh Veg Meal",
      "Fruit & nut mix", "Fruit bowl", "Fruit bowl (small)", "Fruit chaat",
      "Gajar matar sabzi + roti", "Garlic edamame + rice",
      "Greek yogurt mini cup", "Greek-style tofu scramble",
      "Grilled fish tacos", "Grilled protein + salad",
      "Grilled veg tacos (2 small)", "Grilled vegetable wrap (small)",
      "Guacamole + veg sticks", "Hakka noodles + veg", "Healthy Meal",
      "Hot-and-sour veg soup + small rice", "Huevos rancheros (light)",
      "Hummus + veggie sticks", "Idiyappam + stew", "Idli (2) + sambar",
      "Idli (steamed)", "Idli + chutney (light)", "Idli and sambar",
      "Indian Veg Meal", "Kadhi + Rice (small)", "Khichdi (Light)",
      "Lauki sabzi + Roti", "Lemon rice + poriyal", "Lentil salad bowl",
      "Lentil stew", "Lentil taco salad", "Light lemon rice + veg",
      "Light paneer curry + roti", "Light vegetable congee",
      "Masala dosa (small)", "Masala peanuts", "Matar Sabzi + Roti",
      "Mediterranean buddha bowl", "Mediterranean pita + hummus",
      "Mexican Bean Rice Bowl", "Mexican Veg Plate",
      "Mexican Veg Rice Bowl", "Mexican rice + grilled veg",
      "Mexican-style oats", "Mini corn cup", "Mini oats cup",
      "Mini salad cup", "Mini steamed dim sum platter",
      "Mini veg salad cup", "Miso-ish veg soup + noodles",
      "Mixed Grain Bowl", "Mixed Veg Sabzi + Roti",
      "Mixed mushroom stir-fry + rice", "Mixed salad small bowl",
      "Mixed veg curry + Roti", "Mixed veg kootu + rice",
      "Mixed veg sabzi + roti", "Momo (veg, steamed)", "Moong Dal + Rice",
      "Moong Dal Chilla", "Moong Dal Fry + Roti", "Moong Dal Khichdi",
      "Moong dal + Phulka", "Moong dal + rice (light)", "Moong dal chilla",
      "Mung bean pancake", "Oats upma", "Overnight oats (plant milk)",
      "Palak Sabzi + Roti", "Palak dal + rice", "Palak paneer + Roti",
      "Palak paneer + roti", "Paneer Bhurji + Roti", "Paneer Masala Bowl",
      "Paneer bhurji + Rice", "Paneer bhurji + Roti",
      "Paneer paratha (small)", "Pesarattu (moong dosa)",
      "Plain dosa + chutney", "Plain noodle soup (small)",
      "Poha with peas", "Pongal (light)", "Pongal with vegetable curry",
      "Protein bar (small)", "Quinoa & Veg Bowl",
      "Quinoa & corn stuffed tortillas", "Quinoa & veg salad",
      "Quinoa Burrito Bowl", "Quinoa burrito bowl", "Quinoa porridge",
      "Ragi dosa + chutney", "Ragi malt drink",
      "Rajma + Rice (small bowl)", "Rajma + Rice (small)",
      "Rasam + Rice (small)", "Rasam + rice + poriyal", "Rasam bowl + veg",
      "Rava dosa (small)", "Rice cakes + nut butter", "Rice crackers",
      "Rice porridge with veg", "Roasted Almonds", "Roasted almonds",
      "Roasted chana", "Roasted makhana", "Roasted peanuts",
      "Roasted spiced peanuts", "Roasted veg + couscous",
      "Roti + light sabzi", "Sambar rice + veg", "Savory soy oats",
      "Scallion pancake (vegan)", "Scrambled eggs with salsa",
      "Seaweed snack + edamame", "Small poha bowl",
      "Smoothie bowl (small)", "Smoothie small glass",
      "South Indian thali (light)", "Sprouted lentil sabzi + roti",
      "Sprouts Salad", "Sprouts chaat", "Steamed buns", "Steamed corn cup",
      "Steamed dumplings (veg)", "Steamed fish + greens (light)",
      "Steamed veg + brown rice bowl", "Stir-Fried Tofu Noodles",
      "Stir-Fried Veg with Tofu", "Stir-fried greens + steamed rice",
      "Stir-fried tofu with capsicum", "Stuffed paratha (small)",
      "Stuffed peppers (Mexican spice)", "Stuffed portobello + salad",
      "Stuffed roti + curd", "Suji cheela", "Sundal",
      "Sundal (white chana)", "Szechuan veg bowl", "Tender coconut water",
      "Teriyaki tofu + steamed rice", "Tofu & bok choy bowl",
      "Tofu & veg stir-fry", "Tofu Soft Tacos",
      "Tofu cubes with soy-ginger", "Tofu scramble (Asian style)",
      "Tomato Moong Dal + Rice", "Tomato Toor Dal + Rice",
      "Tomato dal + 1 phulka", "Tomato dosa (small)", "Tomato rice + curd",
      "Tomato rice + veg kootu", "Toor Dal + Rice", "Toor Dal Fry + Roti",
      "Toor Dal Khichdi", "Toor dal khichdi", "Tortilla soup", "Upma",
      "Veg Fried Rice", "Veg Noodle Bowl", "Veg Rice Bowl", "Veg Tacos",
      "Veg biryani (small)", "Veg congee", "Veg enchiladas (small)",
      "Veg fajita bowl", "Veg fried rice",
      "Veg pasta in tomato-herb sauce", "Veg pulao + raita",
      "Veg quesadilla mini piece", "Veg salad mini bowl",
      "Veg soup + roti (light)", "Veg soup cup",
      "Veg spring rolls (baked)", "Veg stew + appam",
      "Vegan breakfast burrito (small)", "Vegetable Chow Mein",
      "Vegetable biryani (small)", "Vegetable chow mein",
      "Vegetable curry (global style) + grains", "Vegetable fajitas",
      "Vegetable hotpot (small)", "Vegetable idiyappam",
      "Vegetable khichdi", "Vegetable lo mein (small)",
      "Vegetable sandwich (small)", "Vegetable upma",
      "Vegetable uttapam (small)", "Wholegrain toast + avocado">>

\* ===================================================== the plan builder
\* ------------------------------------------------- strings and seeds
MealNames == <<"breakfast", "lunch", "dinner", "snacks">>

\* w in s.lower()
In(w, s) == s \in Containing(w)

\* any(w in s.lower() for w in ws)
AnyIn(ws, s) == \E w \in ws : In(w, s)

\* the position of the first item of s that passes Test, 0 when none does
FirstPos(s, Test(_)) ==
    IF \E j \in 1..Len(s) : Test(s[j])
    THEN CHOOSE j \in 1..Len(s) :
            Test(s[j]) /\ \A l \in 1..(j - 1) : ~Test(s[l])
    ELSE 0

\* the terms a user may type into the dislikes and allergies boxes
AvoidTermSeq == <<"onion", "salad", "corn", "bowl">>

\* The strings that get hashed are coded by numbers, different strings by
\* different numbers.
TokenIdx(token) ==
    CASE token = "global" -> 0
      [] token = "indian_south" -> 1
      [] token = "indian_north" -> 2
      [] token = "indian" -> 3
      [] token = "chinese" -> 4
      [] token = "mexican" -> 5

MealIdx(meal) == FirstPos(MealNames, LAMBDA m : m = meal) - 1

\* ','.join(sorted(disliked))
RECURSIVE AvoidCode(_, _)
AvoidCode(disliked, j) ==
    IF j > Len(AvoidTermSeq) THEN 0
    ELSE (IF AvoidTermSeq[j] \in disliked THEN 2 ^ (j - 1) ELSE 0)
         + AvoidCode(disliked, j + 1)

\* the same for the other terms of the avoid lists modelled
OtherCode(disliked) ==
    (IF "a" \in disliked THEN 1 ELSE 0) + (IF "i" \in disliked THEN 2 ELSE 0)
    + (IF "peanuts" \in disliked THEN 4 ELSE 0)
    + (IF "g" \in disliked THEN 8 ELSE 0) + (IF "t" \in disliked THEN 16 ELSE 0)

\* f"{token}|{meal_type}|{','.join(sorted(disliked))}|{seed_hint}" with
\* seed_hint = f"{seed_hint_base}_{len(pool)}_{attempts}" (lines 422, 605)
SynthSeed(token, meal_type, disliked, hint) ==
    ((((TokenIdx(token) * 4 + MealIdx(meal_type)) * (2 ^ Len(AvoidTermSeq))
         + AvoidCode(disliked, 1)) * 2
        + (IF hint.global THEN 1 ELSE 0)) * 8
       + hint.len) * 32 + hint.attempts
    + OtherCode(disliked) * (2 ^ 18)

\* short_seed + "_base", "_prot", "_vegs", "_extra", "_spice" (j = 1..5)
ShortCode(short_seed, j) == 2000000 + short_seed * 8 + j

\* f"{meal_name}-{d}-{len(candidates)}" (lines 650, 660)
PlaceCode(meal_name, d, n) == 3000000 + (MealIdx(meal_name) * 8 + d) * 64 + n

\* ------------------------------------------------- _make_title_from_base
TitleFor(token, base, protein, vegs, roti, rice) ==
    IF token = "indian" THEN
        IF AnyIn({"toor", "tuvar", "arhar"}, protein) THEN
            IF rice THEN (IF InSeq("tomato", vegs)
                          THEN "Tomato Toor Dal + Rice"
                          ELSE "Toor Dal + Rice")
            ELSE IF roti THEN "Toor Dal Fry + Roti"
            ELSE "Toor Dal Khichdi"
        ELSE IF AnyIn({"moong", "mung"}, protein) THEN
            IF rice THEN (IF InSeq("tomato", vegs)
                          THEN "Tomato Moong Dal + Rice"
                          ELSE "Moong Dal + Rice")
            ELSE IF roti THEN "Moong Dal Fry + Roti"
            ELSE "Moong Dal Khichdi"
        ELSE IF In("chana", protein) THEN
            IF rice THEN "Chana Dal + Rice"
            ELSE IF roti THEN "Chana Dal Fry + Roti"
            ELSE "Chana Dal Khichdi"
        ELSE IF In("paneer", protein) THEN
            IF rice THEN "Paneer Masala Bowl" ELSE "Paneer Bhurji + Roti"
        ELSE IF roti THEN
            IF InSeq("spinach", vegs) THEN "Palak Sabzi + Roti"
            ELSE IF InSeq("peas", vegs) THEN "Matar Sabzi + Roti"
            ELSE "Mixed Veg Sabzi + Roti"
        ELSE IF rice THEN "Veg Rice Bowl"
        ELSE "Indian Veg Meal"
    ELSE IF token = "chinese" THEN
        IF In("noodles", base) THEN
            (IF In("tofu", protein) THEN "Stir-Fried Tofu Noodles"
             ELSE "Vegetable Chow Mein")
        ELSE IF rice THEN
            (IF In("edamame", protein) THEN "Edamame Fried Rice"
             ELSE "Veg Fried Rice")
        ELSE IF \E j \in 1..Len(vegs) : In("bok", vegs[j])
             THEN "Stir-Fried Veg with Tofu"
        ELSE "Chinese Veg Stir-Fry"
    ELSE IF token = "mexican" THEN
        IF In("tortilla", base) \/ In("taco", base) THEN
            (IF In("beans", protein) THEN "Bean Tacos"
             ELSE IF In("tofu", protein) THEN "Tofu Soft Tacos"
             ELSE "Veg Tacos")
        ELSE IF rice THEN
            (IF In("beans", protein) THEN "Mexican Bean Rice Bowl"
             ELSE "Mexican Veg Rice Bowl")
        ELSE IF In("quinoa", base) THEN "Quinoa Burrito Bowl"
        ELSE "Mexican Veg Plate"
    ELSE IF token = "global" THEN
        IF In("quinoa", base) THEN "Quinoa & Veg Bowl"
        ELSE IF In("grains", base) THEN "Mixed Grain Bowl"
        ELSE IF In("noodles", base) THEN "Veg Noodle Bowl"
        ELSE IF rice THEN "Veg Rice Bowl"
        ELSE "Fresh Veg Meal"
    ELSE "Healthy Meal"

_make_title_from_base(cuisine_token, base, protein, vegs, meal_type) ==
    TitleFor(IF cuisine_token \in {"indian", "indian_south", "indian_north"}
             THEN "indian"
             ELSE IF cuisine_token = "" THEN "global" ELSE cuisine_token,
             base, protein, vegs,
             In("roti", base) \/ In("phulka", base), In("rice", base))

\* ------------------------------------------------- the Catalog
\* SAMPLE_RECIPES is a dict in insertion order: a sequence of recipes, each
\* carrying its key.  A seed key is <<name>>; a synthetic key
\* f"{pool_key}_{meal_type}_{short_seed}" is <<pool_key, meal_type,
\* short_seed>> and, with the suffix f"_{i}", the same with i appended.
HasKey(cat, key) == \E j \in 1..Len(cat) : cat[j].key = key

\* SAMPLE_RECIPES.get(key, {}).get("ingredients", [])
IngredientsOf(cat, key) ==
    LET j == FirstPos(cat, LAMBDA r : r.key = key)
    IN IF j = 0 THEN <<>> ELSE cat[j].ingredients

\* the key is taken as it is, without the loop
FreshKeyMut(cat, key_base, i) == key_base

\* the while loop of lines 479-483
RECURSIVE FreshKey(_, _, _)
FreshKey(cat, key_base, i) ==
    LET key == IF i = 1 THEN key_base ELSE Append(key_base, i)
    IN IF HasKey(cat, key) THEN FreshKey(cat, key_base, i + 1) ELSE key

\* ------------------------------------------------- generate_synthetic_recipe
\* the items are returned as they are
avoidMut(items, disliked) == items

\* avoid(items) of lines 439-441
avoid(items, disliked) ==
    LET filtered == SelectSeq(items, LAMBDA it : ~AnyIn(disliked, it))
    IN IF filtered # <<>> THEN filtered ELSE items

\* lines 414-419: the token and the key of its generation pool
SynthToken(cuisine_token) ==
    IF cuisine_token = "" THEN "global" ELSE cuisine_token

PoolKey(token) ==
    IF token \in {"indian", "indian_south", "indian_north"} THEN "indian"
    ELSE IF token \in GenPoolKeys THEN token ELSE "global"

\* lines 431-437: for a vegan diet a protein that is no plant protein is
\* replaced by the first plant protein of the pool, if there is one
VeganProtein(proteins, protein, vegan) ==
    LET veg_options == {"tofu", "lentil", "beans", "edamame", "moong"}
        vp == FirstPos(proteins, LAMBDA p : AnyIn(veg_options, p))
    IN IF vegan /\ ~AnyIn(veg_options, protein) /\ vp > 0
       THEN proteins[vp] ELSE protein

\* lines 425-447: the fields picked from the pool and filtered by avoid
Picks(pool, short_seed, disliked, vegan) ==
    [base |->
         avoid(_stable_choices(ShortCode(short_seed, 1), pool.bases, 1),
               disliked)[1],
     protein |->
         avoid(<<VeganProtein(
                     pool.proteins,
                     _stable_choices(ShortCode(short_seed, 2),
                                     pool.proteins, 1)[1],
                     vegan)>>,
               disliked)[1],
     vegs |->
         avoid(_stable_choices(ShortCode(short_seed, 3), pool.vegs,
                               Min(2, Len(pool.vegs))),
               disliked),
     extra |->
         avoid(_stable_choices(ShortCode(short_seed, 4), pool.extras, 1),
               disliked)[1],
     spice |->
         avoid(_stable_choices(ShortCode(short_seed, 5), pool.spices, 1),
               disliked)[1]]

\* lines 451-464
Ingredients(base, protein, vegs, extra, spice) ==
    <<IF AnyIn({"rice", "noodles", "quinoa", "grains"}, base)
      THEN "80g " \o base
      ELSE IF AnyIn({"phulka", "roti"}, base) THEN "1 phulka/roti"
      ELSE "1 " \o base,
      "100g " \o protein>>
    \o [j \in 1..Len(vegs) |-> "50g " \o vegs[j]]
    \o <<extra, "Salt and " \o spice \o " to taste">>

\* no bonus for a flatbread base
CalEstMut(base, protein) ==
    200
    + (IF AnyIn({"beans", "dal", "chana", "lentil", "moong"}, protein)
       THEN 130 ELSE 0)
    + (IF AnyIn({"rice", "pasta", "quinoa", "grains"}, base) THEN 90 ELSE 0)

\* lines 468-476
CalEst(base, protein) ==
    200
    + (IF AnyIn({"beans", "dal", "chana", "lentil", "moong"}, protein)
       THEN 130 ELSE 0)
    + (IF AnyIn({"rice", "pasta", "quinoa", "grains"}, base) THEN 90 ELSE 0)
    + (IF AnyIn({"phulka", "roti"}, base) THEN 80 ELSE 0)

\* lines 485-491
Tags(meal_type, pool_key, protein, vegan) ==
    <<meal_type, pool_key, "vegetarian",
      IF vegan THEN "vegan"
      ELSE IF AnyIn({"paneer", "milk", "yogurt", "egg"}, protein)
      THEN "non-vegan" ELSE "vegetarian">>

\* lines 449-500: the recipe of the picked fields, with the key of line 478
RecipeOf(token, pool_key, meal_type, short_seed, p, vegan) ==
    [key |-> <<pool_key, meal_type, short_seed>>,
     title |-> _make_title_from_base(token, p.base, p.protein, p.vegs,
                                     meal_type),
     cal |-> CalEst(p.base, p.protein),
     ingredients |-> Ingredients(p.base, p.protein, p.vegs, p.extra, p.spice),
     steps |-> <<"(recipe steps omitted)">>,
     cuisine |-> pool_key,
     tags |-> Tags(meal_type, pool_key, p.protein, vegan)]

SeededRecipe(token, meal_type, disliked, vegan, short_seed) ==
    RecipeOf(token, PoolKey(token), meal_type, short_seed,
             Picks(GEN_POOLS(PoolKey(token)), short_seed, disliked, vegan),
             vegan)

\* the recipe the generator builds from its arguments (lines 414-476,
\* 485-500), before line 479 settles its key
SyntheticRecipe(cuisine_token, meal_type, disliked, seed_hint, vegan) ==
    SeededRecipe(SynthToken(cuisine_token), meal_type, disliked, vegan,
                 Md5(SynthSeed(SynthToken(cuisine_token), meal_type, disliked,
                               seed_hint)))

\* lines 478-500: SAMPLE_RECIPES[key] = {...} with the key the loop gives;
\* a dict keeps a key that it holds in its place and puts a new key last
StoreRecipe(cat, rec) ==
    LET new == [rec EXCEPT !.key = FreshKey(cat, rec.key, 1)]
        old == FirstPos(cat, LAMBDA r : r.key = new.key)
    IN IF old = 0 THEN Append(cat, new) ELSE [cat EXCEPT ![old] = new]

\* generate_synthetic_recipe: the Catalog after the call; the new recipe is
\* its last item and the returned key is that recipe's key
generate_synthetic_recipe(cat, token, meal_type, disliked, hint, vegan) ==
    StoreRecipe(cat, SyntheticRecipe(token, meal_type, disliked, hint, vegan))

\* ------------------------------------------------- detect_base_token
detect_base_token(cat, rec_key) ==
    LET ings == IngredientsOf(cat, rec_key)
        tokens == <<"phulka", "roti", "rice", "noodles", "quinoa", "grains",
                    "tortilla">>
        j == FirstPos(tokens,
                      LAMBDA t : \E l \in 1..Len(ings) : In(t, ings[l]))
    IN IF j = 0 THEN "other" ELSE tokens[j]

\* ------------------------------------------------- matches_cuisine
matches_cuisine(rec, cuisine_token) ==
    IF cuisine_token \in {"", "global"} THEN TRUE
    ELSE IF cuisine_token \in {"indian", "indian_south", "indian_north"}
    THEN /\ rec.cuisine = "indian"
         /\ cuisine_token = "indian_south" => InSeq("south", rec.tags)
         /\ cuisine_token = "indian_north" => InSeq("north", rec.tags)
    ELSE rec.cuisine = cuisine_token

\* ------------------------------------------------- safe_sample_recipes
\* the test of lines 585-588 on one recipe of the Catalog
Qualifies(rec, meal_type, cuisine_token) ==
    /\ InSeq(meal_type, rec.tags)
    /\ cuisine_token \notin {"", "global"}
           => matches_cuisine(rec, cuisine_token)

\* the global names are taken for every cuisine
_gather_name_poolMut(cat, meal_type, cuisine_token) ==
    LET names == (IF cuisine_token \in CanonicalTokens
                  THEN CANONICAL_DISHES(cuisine_token, meal_type) ELSE <<>>)
                 \o CANONICAL_DISHES("global", meal_type)
        Appended(j) ==
            /\ Qualifies(cat[j], meal_type, cuisine_token)
            /\ ~InSeq(cat[j].title, names)
            /\ \A l \in 1..(j - 1) :
                   Qualifies(cat[l], meal_type, cuisine_token)
                       => cat[l].title # cat[j].title
        taken == SelectSeq([j \in 1..Len(cat) |-> j], Appended)
    IN names \o [l \in 1..Len(taken) |-> cat[taken[l]].title]

\* _gather_name_pool: the canonical names, then the title of every recipe
\* the loop of lines 578-591 appends: a recipe that qualifies and whose
\* title is neither canonical nor the title of an earlier qualifying recipe
_gather_name_pool(cat, meal_type, cuisine_token) ==
    LET names == (IF cuisine_token \in CanonicalTokens
                  THEN CANONICAL_DISHES(cuisine_token, meal_type) ELSE <<>>)
                 \o (IF cuisine_token \in {"", "global"}
                     THEN CANONICAL_DISHES("global", meal_type) ELSE <<>>)
        Appended(j) ==
            /\ Qualifies(cat[j], meal_type, cuisine_token)
            /\ ~InSeq(cat[j].title, names)
            /\ \A l \in 1..(j - 1) :
                   Qualifies(cat[l], meal_type, cuisine_token)
                       => cat[l].title # cat[j].title
        taken == SelectSeq([j \in 1..Len(cat) |-> j], Appended)
    IN names \o [l \in 1..Len(taken) |-> cat[taken[l]].title]

\* hates(name) of lines 596-598
hates(name, disliked) == AnyIn(disliked, name)

\* the number of attempts of the padding loop (line 604)
MaxAttempts == 30

\* the arguments of safe_sample_recipes that decide the plan's dishes;
\* calorie_target, time_per_meal and cooking_skill are only copied into
\* the plan and are left out
PlanArgs(pref, dislikes, days, frequency, vegan) ==
    [pref |-> pref, dislikes |-> dislikes, days |-> days,
     frequency |-> frequency, vegan |-> vegan]

\* need of line 623
Need(args) ==
    IF args.frequency = "prefer_new_daily" THEN args.days
    ELSE Max(args.days, 6)

\* One call of safe_sample_recipes is a record b: b.pc is its position,
\* b.j the meal of the loop of line 622, b.stage = "own" in the call of
\* _ensure_name_pool of line 624 and "global" in the one of line 626,
\* b.first the pool line 624 returned, b.pool and b.attempts the locals of
\* _ensure_name_pool, b.pools per_meal_pools in the order of meal_names,
\* b.used used_names_per_meal, b.d and b.m the day and the meal of the
\* loops of lines 636 and 639, b.days the slots of each day begun.
PlanStart(args) ==
    [pc |-> "gather", args |-> args, j |-> 1, stage |-> "own",
     first |-> <<>>, pool |-> <<>>, attempts |-> 0, pools |-> <<>>,
     used |-> [j \in 1..Len(MealNames) |-> <<>>],
     d |-> 0, m |-> 1,
     days |-> <<>>, base_counter |-> [t \in {} |-> 0],
     exc |-> "", plan |-> NoPlan]

\* the cuisine_token of the running call of _ensure_name_pool
StageToken(b) ==
    IF b.stage = "global" \/ b.args.pref = "" THEN "global" ELSE b.args.pref

\* lines 594-603: the gathered pool without hated and, for a vegan diet,
\* dairy names
PlanGather(cat, b) ==
    LET dairy == {"paneer", "curd", "buttermilk", "yogurt", "milk"}
        pool0 == SelectSeq(
                     _gather_name_pool(cat, MealNames[b.j], StageToken(b)),
                     LAMBDA p : ~hates(p, b.args.dislikes))
        pool1 == IF b.args.vegan
                 THEN SelectSeq(pool0, LAMBDA p : ~AnyIn(dairy, p))
                 ELSE pool0
    IN [b EXCEPT !.pool = pool1, !.attempts = 0, !.pc = "pad"]

\* the loop test of line 604
PadLooping(b) ==
    b.pc = "pad" /\ Len(b.pool) < Need(b.args) /\ b.attempts < MaxAttempts

\* one pass through the loop of lines 604-618: the call and the Catalog
\* after it
\* lines 608-616: the pool after the recipe new was generated
Padded(pool, new, disliked, vegan) ==
    IF /\ ~hates(new.title, disliked)
       /\ ~InSeq(new.title, pool)
       /\ vegan => InSeq("vegan", new.tags)
    THEN Append(pool, new.title) ELSE pool

PadWith(cat2, b) ==
    [b |-> [b EXCEPT !.pool = Padded(@, cat2[Len(cat2)], b.args.dislikes,
                                     b.args.vegan),
                     !.attempts = @ + 1],
     cat |-> cat2]

PlanPad(cat, b) ==
    PadWith(generate_synthetic_recipe(
                cat, StageToken(b), MealNames[b.j], b.args.dislikes,
                [global |-> b.stage = "global", len |-> Len(b.pool),
                 attempts |-> b.attempts],
                b.args.vegan),
            b)

\* items of b that a does not hold, appended to a in order (lines 627-629)
RECURSIVE AppendNew(_, _)
AppendNew(a, b) ==
    IF b = <<>> THEN a
    ELSE AppendNew(IF InSeq(Head(b), a) THEN a ELSE Append(a, Head(b)),
                   Tail(b))

\* _ensure_name_pool returns (line 619): lines 625-630 start the global
\* call, or merge its pool, and store the meal's pool
PlanPoolDone(b) ==
    IF b.stage = "own" /\ Len(b.pool) < Need(b.args) /\ b.args.pref # "global"
    THEN [b EXCEPT !.first = b.pool, !.stage = "global", !.pc = "gather"]
    ELSE LET pool == IF b.stage = "own" THEN b.pool
                     ELSE AppendNew(b.first, b.pool)
             last == b.j = Len(MealNames)
         IN [b EXCEPT !.pools = Append(@, pool), !.first = <<>>,
                      !.pool = <<>>, !.attempts = 0, !.stage = "own",
                      !.j = IF last THEN 1 ELSE b.j + 1,
                      !.pc = IF last THEN "place" ELSE "gather"]

\* sorted(pool, key=lambda x: (usage_counts.get(x, 0), x))[0]
Count(x, s) == Cardinality({j \in 1..Len(s) : s[j] = x})

NameRank(n) == FirstPos(NamesInOrder, LAMBDA x : x = n)

LeastUsedMut(pool, used) == pool[1]

LeastUsed(pool, used) ==
    CHOOSE p \in {pool[j] : j \in 1..Len(pool)} :
        \A q \in {pool[j] : j \in 1..Len(pool)} :
            \/ Count(p, used) < Count(q, used)
            \/ Count(p, used) = Count(q, used) /\ NameRank(p) <= NameRank(q)

\* int(sha256(seed).hexdigest(), 16) % n for the seed of lines 650 and 660
PlaceIdx(meal_name, d, n) ==
    HexMod(Sha256(PlaceCode(meal_name, d, n)), 1, HexLen, n)

\* [p for p in pool if p not in used_names_per_meal[meal_name]] (lines 647,
\* 657)
UnusedMut(pool, used) == pool

Unused(pool, used) == SelectSeq(pool, LAMBDA p : ~InSeq(p, used))

\* lines 640-663: the name chosen for the slot, or the exception raised
Chosen(meal_name, d, frequency, pool, used, candidates) ==
    IF candidates # <<>>
    THEN [exc |-> "",
          name |-> candidates[PlaceIdx(meal_name, d, Len(candidates)) + 1]]
    ELSE IF frequency = "prefer_new_daily"
    THEN IF pool # <<>>
         THEN [exc |-> "", name |-> LeastUsed(pool, used)]
         ELSE [exc |-> "IndexError", name |-> ""]
    ELSE [exc |-> "ZeroDivisionError", name |-> ""]

\* lines 646-659: the candidates of the slot
Candidates(frequency, pool, fresh) ==
    IF frequency # "prefer_new_daily" /\ fresh = <<>> THEN pool ELSE fresh

ChooseFrom(meal_name, d, frequency, pool, used) ==
    Chosen(meal_name, d, frequency, pool, used,
           Candidates(frequency, pool, Unused(pool, used)))

\* lines 640-644: the pool of the slot
SlotPool(cat, pool, disliked) ==
    SelectSeq(IF pool # <<>> THEN pool
              ELSE [j \in 1..Len(cat) |-> cat[j].title],
              LAMBDA p : ~AnyIn(disliked, p))

ChooseName(cat, b) ==
    ChooseFrom(MealNames[b.m], b.d, b.args.frequency,
               SlotPool(cat, b.pools[b.m], b.args.dislikes), b.used[b.m])

\* lines 665-689: the Entry for a chosen name
DefaultCalories(meal_name) ==
    IF meal_name = "breakfast" THEN 220
    ELSE IF meal_name = "snacks" THEN 150 ELSE 380

\* the titles compared as written
MatchPosMut(cat, chosen_name) ==
    FirstPos(cat, LAMBDA r : r.title = chosen_name)

MatchPos(cat, chosen_name) ==
    FirstPos(cat, LAMBDA r : LowerName(r.title) = LowerName(chosen_name))

EntryAt(cat, meal_name, chosen_name, j) ==
    [name |-> chosen_name,
     calories |-> IF j > 0 THEN cat[j].cal ELSE DefaultCalories(meal_name),
     recipe |-> [ingredients |-> IF j > 0 THEN cat[j].ingredients ELSE <<>>,
                 steps |-> IF j > 0 THEN cat[j].steps ELSE <<>>]]

EntryFor(cat, meal_name, chosen_name) ==
    EntryAt(cat, meal_name, chosen_name, MatchPos(cat, chosen_name))

\* lines 693-702: the base token counted for the placed dish, "" when none
BaseAt(cat, j, cname) ==
    IF j = 0 /\ cname = "" THEN ""
    ELSE detect_base_token(cat, IF j > 0 THEN cat[j].key ELSE <<cname>>)

CountedBase(cat, chosen_name) ==
    BaseAt(cat, MatchPos(cat, chosen_name), CanonicalIngsMatch(chosen_name))

Bump(counter, tok) ==
    IF tok = "" THEN counter
    ELSE IF tok \in DOMAIN counter
    THEN [counter EXCEPT ![tok] = @ + 1]
    ELSE counter @@ (tok :> 1)

\* one pass through the body of the inner loop (lines 640-702) for day b.d
\* and meal b.m; b.days holds one slot mapping per day begun
\* plan["meals"][day_key] with the slot of meal b.m set (lines 638, 691)
WithSlot(days, m, slot) ==
    IF m = 1 THEN Append(days, slot)
    ELSE [days EXCEPT ![Len(days)] = @ @@ slot]

Placed(cat, b, c, last) ==
    IF c.exc # ""
    THEN [b EXCEPT !.pc = "raised", !.exc = c.exc]
    ELSE [b EXCEPT !.used[b.m] = Append(@, c.name),
                   !.days = WithSlot(@, b.m,
                                     MealNames[b.m]
                                         :> <<EntryFor(cat, MealNames[b.m],
                                                       c.name)>>),
                   !.base_counter = Bump(@, CountedBase(cat, c.name)),
                   !.m = IF last THEN 1 ELSE b.m + 1,
                   !.d = IF last THEN b.d + 1 ELSE b.d,
                   !.pc = IF last /\ b.d + 1 = b.args.days
                          THEN "built" ELSE "place"]

PlanPlace(cat, b) ==
    Placed(cat, b, ChooseName(cat, b), b.m = Len(MealNames))

\* f"day_{d+1}"
DayKey(d) == "day_" \o ToString(d + 1)

\* lines 704-709: base_counts, the single-day collapse and the return
PlanReturnMut(b) ==
    [b EXCEPT !.pc = "done",
              !.plan = [meals |-> [k \in {DayKey(d) : d \in 0..(Len(b.days) - 1)}
                                     |-> b.days[CHOOSE j \in 1..Len(b.days) : DayKey(j - 1) = k]],
                        base_counts |-> b.base_counter]]

PlanReturn(b) ==
    [b EXCEPT !.pc = "done",
              !.plan = [meals |-> IF b.args.days = 1 THEN b.days[1]
                                  ELSE [k \in {DayKey(d) : d \in 0..(Len(b.days) - 1)}
                                          |-> b.days[CHOOSE j \in 1..Len(b.days) : DayKey(j - 1) = k]],
                        base_counts |-> b.base_counter]]


\* ================================================================ chat
\* CUISINE_MAP (line 256) on the cuisines a request may name
Cuisines == {"No preference", "Global", "Mexican"}

CUISINE_MAP(c) ==
    CASE c = "No preference" -> ""
      [] c = "Global" -> "global"
      [] c = "Mexican" -> "mexican"
      [] c = "Indian (South)" -> "indian_south"
      [] OTHER -> ""

\* A chat text is a sequence of phrases separated by blanks; ChatVocab
\* holds the phrases the texts are made of. The phrase " " is a blank of
\* its own: a text of such phrases only is whitespace.
ChatVocab ==
    {"emergency", "choking", "breathless", "unable to breathe",
     "loss of consciousness", "anaphylaxis", "pregnant", "allergic",
     "severe allergic", "tablet", "protein powder", "grocery list",
     "recipe for", "make me a", "lose weight", "gain", "muscle",
     "maintain", "after workout", "i ate", "had", "swap", "avoid",
     "meal plan", "7-day", "7 day", "1-day", "one day", "weekly plan",
     "give meal plan", "create a", "south indian", "indian", "mexican",
     "300 calories", "bloated", "hello", "Diabetes", "diabetes",
     "metformin", "2 biscuits", "a chocolate bar", "and", "lemon rice"}

\* str.lower() on a phrase
Lower(p) ==
    CASE p = "Diabetes" -> "diabetes"
      [] OTHER -> p

\* phrase.split(): the words of a lowercased phrase
PhraseWords(p) ==
    CASE p = " " -> <<>>
      [] p = "unable to breathe" -> <<"unable", "to", "breathe">>
      [] p = "loss of consciousness" -> <<"loss", "of", "consciousness">>
      [] p = "severe allergic" -> <<"severe", "allergic">>
      [] p = "protein powder" -> <<"protein", "powder">>
      [] p = "grocery list" -> <<"grocery", "list">>
      [] p = "recipe for" -> <<"recipe", "for">>
      [] p = "make me a" -> <<"make", "me", "a">>
      [] p = "lose weight" -> <<"lose", "weight">>
      [] p = "after workout" -> <<"after", "workout">>
      [] p = "i ate" -> <<"i", "ate">>
      [] p = "meal plan" -> <<"meal", "plan">>
      [] p = "7 day" -> <<"7", "day">>
      [] p = "one day" -> <<"one", "day">>
      [] p = "weekly plan" -> <<"weekly", "plan">>
      [] p = "give meal plan" -> <<"give", "meal", "plan">>
      [] p = "create a" -> <<"create", "a">>
      [] p = "south indian" -> <<"south", "indian">>
      [] p = "300 calories" -> <<"300", "calories">>
      [] p = "2 biscuits" -> <<"2", "biscuits">>
      [] p = "a chocolate bar" -> <<"a", "chocolate", "bar">>
      [] p = "lemon rice" -> <<"lemon", "rice">>
      [] OTHER -> <<p>>

\* the lowercased phrases that each pattern of parse_message_intent
\* matches (re.search), by the intent the pattern stands for
CategoryPhrases(c) ==
    CASE c = "urgent" ->
             {"breathless", "choking", "emergency", "loss of consciousness", "unable to breathe"}
      [] c = "pregnancy" ->
             {"pregnant"}
      [] c = "allergic_reaction" ->
             {"allergic", "anaphylaxis", "severe allergic"}
      [] c = "supplement_tablet" ->
             {"tablet"}
      [] c = "supplement_query" ->
             {"protein powder"}
      [] c = "grocery_request" ->
             {"grocery list"}
      [] c = "recipe_request" ->
             {"make me a", "recipe for"}
      [] c = "goal_lose" ->
             {"lose weight"}
      [] c = "goal_gain" ->
             {"gain"}
      [] c = "goal_muscle" ->
             {"muscle"}
      [] c = "goal_maintain" ->
             {"maintain"}
      [] c = "workout_timing" ->
             {"after workout"}
      [] c = "ate" ->
             {"had", "i ate"}
      [] c = "swap" ->
             {"swap"}
      [] c = "dislike" ->
             {"avoid"}
      [] c = "generate_plan" ->
             {"1-day", "7 day", "7-day", "create a", "give meal plan", "make me a", "meal plan", "one day", "weekly plan"}
      [] c = "macro_calorie" ->
             {"300 calories"}
      [] c = "lifestyle" ->
             {"bloated"}
      [] OTHER -> {}

\* the phrases that contain a given substring (Python's `sub in s`), for
\* the substrings the chat functions look for
PhrasesWith(sub) ==
    CASE sub = "diabetes" -> {"diabetes"}
      [] sub = "anaphylaxis" -> {"anaphylaxis"}
      [] sub = "severe allergic" -> {"severe allergic"}
      [] sub = "unable to breathe" -> {"unable to breathe"}
      [] sub = "emergency" -> {"emergency"}
      [] sub = "south indian" -> {"south indian"}
      [] sub = "indian" -> {"south indian", "indian"}
      [] sub = "mexican" -> {"mexican"}
      [] sub = "preg" -> {"pregnant"}
      [] sub = "south" -> {"south indian"}
      [] sub = "bloated" -> {"bloated"}
      [] sub = "recipe" -> {"recipe for"}
      [] sub = "meal" -> {"meal plan", "give meal plan"}
      [] sub = "7" -> {"7-day", "7 day"}
      [] sub = "weekly" -> {"weekly plan"}
      [] OTHER -> {}

\* the cuisine names of the cuisine loop of parse_message_intent (line
\* 840), in its order
CuisineNames ==
    <<"south indian", "north indian", "indian", "chinese", "mexican", "italian", "global">>

\* serious_terms of is_serious_query, in list order
SeriousTerms ==
    <<"diabetes", "type 1", "type 2", "insulin", "hypogly", "blood sugar",
      "heart attack", "chest pain", "cardiac", "heart disease", "stroke",
      "kidney", "renal", "dialysis", "liver", "cirrhosis", "cancer",
      "chemotherapy", "oncology", "pregnancy complication",
      "gestational diabetes", "pre-eclampsia", "miscarriage", "surgery",
      "post-op", "post operative", "organ transplant", "immunosuppressed",
      "food poisoning", "anaphylaxis", "severe allergic",
      "unable to breathe", "severe swelling", "unconscious", "hospital",
      "emergency">>

\* the lowercased phrases matching the prescription-drug pattern (line
\* 1252)
DrugPhrases == {"metformin"}

\* the phrases ending in a match of (?:i ate|i had|had|just ate)
AteCapture == {"i ate", "had"}

\* the phrases ending in a match of
\* (?:how to make|recipe for|how to cook|how to prepare)
RecipeCapture == {"recipe for"}

\* the phrases ending in a match of the dislike capture pattern (line 832)
DislikeCapture == {"avoid"}

\* the first key k of CANONICAL_INGS with `dish.lower() in k.lower() or
\* k.lower() in dish.lower()` for a dish of one phrase, "" when there is
\* none; no dish of several phrases has one (lines 1374-1375)
CanonicalKeyOfPhrase(p) ==
    CASE p = "and" -> "Idli and sambar"
      [] OTHER -> ""


\* -------------------------------------------------------- chat texts
\* text.lower()
LowerText(text) == [j \in 1..Len(text) |-> Lower(text[j])]

\* sub in text
Has(text, sub) == \E j \in 1..Len(text) : text[j] \in PhrasesWith(sub)

\* re.search(pattern of category c, t) for a lowercased text t
Matches(t, c) == \E j \in 1..Len(t) : t[j] \in CategoryPhrases(c)

\* the words of a lowercased text
RECURSIVE WordsOf(_)
WordsOf(t) ==
    IF t = <<>> THEN <<>> ELSE PhraseWords(Head(t)) \o WordsOf(Tail(t))

\* the position of the first phrase of t that is in capture and, when
\* strict, has a phrase after it; 0 when there is none
CapturePos(t, capture, strict) ==
    FirstPos([j \in 1..Len(t) |-> j],
             LAMBDA j : t[j] \in capture /\ (strict => j < Len(t)))

\* text.strip(): the text without the blanks at its ends
Strip(text) ==
    LET solid == {j \in 1..Len(text) : text[j] # " "}
    IN IF solid = {} THEN <<>>
       ELSE SubSeq(text, CHOOSE a \in solid : \A b \in solid : a <= b,
                   CHOOSE a \in solid : \A b \in solid : a >= b)

\* m.group(1) of re.search(r'(?:...)\s+(.*)', t) when it matches at j: the
\* blanks after the match belong to \s+; and what the code takes when it
\* does not match (lines 801-802, 821-822, 833)
Captured(t, j, default) ==
    IF j > 0 THEN Strip(SubSeq(t, j + 1, Len(t))) ELSE default

\* a dict is a function from its keys to texts
EmptyMeta == [k \in {} |-> <<>>]

Meta1(k, v) == [x \in {k} |-> v]

\* meta.get(k, default)
Get(meta, k, default) == IF k \in DOMAIN meta THEN meta[k] ELSE default

\* ----------------------------------------------- parse_message_intent
\* the logging pattern tried first
ParseOrderMut ==
    <<"ate", "urgent", "pregnancy", "allergic_reaction", "supplement_tablet",
      "supplement_query", "grocery_request", "recipe_request", "goal_lose",
      "goal_gain", "goal_muscle", "goal_maintain", "workout_timing",
      "swap", "dislike", "generate_plan">>

\* the patterns tried before the cuisine loop, in order (lines 781-837)
ParseOrder ==
    <<"urgent", "pregnancy", "allergic_reaction", "supplement_tablet",
      "supplement_query", "grocery_request", "recipe_request", "goal_lose",
      "goal_gain", "goal_muscle", "goal_maintain", "workout_timing", "ate",
      "swap", "dislike", "generate_plan">>

\* re.search(r'swap\s+(.*?)\s+(?:for|with|to)\s+(.*)', t) on the words w of
\* t: the positions of "swap" and of the connecting word, <<0, 0>> when the
\* pattern does not match
SwapMatch(w) ==
    LET ok(a, b) == /\ w[a] = "swap"
                    /\ w[b] \in {"for", "with", "to"}
                    /\ a + 1 < b
                    /\ b < Len(w)
        hits == {p \in (1..Len(w)) \X (1..Len(w)) : ok(p[1], p[2])}
    IN IF hits = {} THEN <<0, 0>>
       ELSE CHOOSE p \in hits :
                \A q \in hits : p[1] < q[1] \/ (p[1] = q[1] /\ p[2] <= q[2])

\* lines 826-829
SwapMeta(t, w, m) ==
    IF m[1] > 0
    THEN [k \in {"from", "to"} |->
             IF k = "from" THEN SubSeq(w, m[1] + 1, m[2] - 1)
             ELSE SubSeq(w, m[2] + 1, Len(w))]
    ELSE Meta1("raw", t)

\* the metadata returned with the intent of a pattern of ParseOrder
MetaFor(c, t) ==
    CASE c = "recipe_request" ->
             Meta1("dish", Captured(t, CapturePos(t, RecipeCapture, TRUE), <<>>))
      [] c \in {"goal_lose", "goal_gain", "goal_muscle", "goal_maintain",
                "workout_timing", "generate_plan"} -> Meta1("text", t)
      [] c = "ate" ->
             Meta1("items", Captured(t, CapturePos(t, AteCapture, TRUE), t))
      [] c = "swap" -> SwapMeta(t, WordsOf(t), SwapMatch(WordsOf(t)))
      [] c = "dislike" ->
             Meta1("items",
                   Captured(t, CapturePos(t, DislikeCapture, FALSE), <<>>))
      [] OTHER -> EmptyMeta

\* lines 839-854: the cuisine loop and the patterns after it
ParseRest(t, cu) ==
    IF cu > 0
    THEN [intent |-> "cuisine_request",
          meta |-> [k \in {"cuisine", "text"} |->
                       IF k = "cuisine" THEN <<CuisineNames[cu]>> ELSE t]]
    ELSE IF Matches(t, "macro_calorie")
    THEN [intent |-> "macro_calorie", meta |-> Meta1("text", t)]
    ELSE IF Matches(t, "lifestyle")
    THEN [intent |-> "lifestyle", meta |-> Meta1("text", t)]
    ELSE [intent |-> "question", meta |-> Meta1("q", t)]

ParseLower(t, c) ==
    IF t = <<>> THEN [intent |-> "none", meta |-> EmptyMeta]
    ELSE IF c > 0
    THEN [intent |-> ParseOrder[c], meta |-> MetaFor(ParseOrder[c], t)]
    ELSE ParseRest(t, FirstPos(CuisineNames, LAMBDA n : Has(t, n)))

\* the text read without its outer blanks
parse_message_intentMut(text) ==
    ParseLower(LowerText(text),
               FirstPos(ParseOrder, LAMBDA c : Matches(LowerText(text), c)))

\* t = text.strip().lower() (line 775), then the patterns in order
parse_message_intent(text) ==
    ParseLower(LowerText(Strip(text)),
               FirstPos(ParseOrder,
                        LAMBDA c : Matches(LowerText(Strip(text)), c)))

\* every label parse_message_intent can return
IntentLabels ==
    {ParseOrder[j] : j \in 1..Len(ParseOrder)}
    \cup {"none", "cuisine_request", "macro_calorie", "lifestyle", "question"}

\* --------------------------------------------------- is_serious_query
\* the reason returned, "" for None
SeriousReason(t, j) ==
    IF j > 0 THEN SeriousTerms[j]
    ELSE IF \E l \in 1..Len(t) : t[l] \in DrugPhrases THEN "medication"
    ELSE ""

is_serious_query(text) ==
    SeriousReason(LowerText(text),
                  FirstPos(SeriousTerms, LAMBDA p : Has(LowerText(text), p)))

\* ------------------------------------------------------------ replies
\* A reply string is kept as the template it is built from (kind) and the
\* values put into the template (detail, a sequence of strings).
Reply(kind, detail) == [kind |-> kind, detail |-> detail]

\* st.session_state["assistant_reply"] = "" (line 1564)
NoReply == Reply("", <<>>)

\* lines 1269-1270: the clinician-referral message, with the keyword
Referral(serious) == Reply("referral", <<serious>>)

\* lines 1277-1281: the compensation advice and the note after it
AteReply(advice) ==
    Reply(advice.kind, <<ToString(advice.kcal), ToString(advice.walk),
                         ToString(advice.trim)>>)

\* ---------------------------------------------- create_suggestion_block
\* the tokens of line 1158, in order
MealTokens == <<"breakfast", "lunch", "dinner", "snack", "snacks">>

\* the cuisine names of line 1163, in order
QueryCuisines ==
    <<"south indian", "north indian", "indian", "chinese", "mexican",
      "global">>

\* meal_type of lines 1157-1161, "" for None
MealTypeAt(j) ==
    IF j = 0 THEN ""
    ELSE IF MealTokens[j] \in {"snack", "snacks"} THEN "snacks"
    ELSE MealTokens[j]

\* cuisine_token of lines 1162-1174
SuggestionToken(j, cuisine_sidebar) ==
    IF j > 0
    THEN (IF QueryCuisines[j] \in {"south indian", "north indian", "indian"}
          THEN "indian" ELSE QueryCuisines[j])
    ELSE IF CUISINE_MAP(cuisine_sidebar)
                \in {"indian", "indian_south", "indian_north"}
    THEN "indian"
    ELSE IF CUISINE_MAP(cuisine_sidebar) = "" THEN "global"
    ELSE CUISINE_MAP(cuisine_sidebar)

\* the header and the cuisine whose canonical dishes are suggested; the
\* dishes picked from them are not part of the reply kept here
create_suggestion_block(user_query, cuisine_sidebar) ==
    Reply("suggestions",
          <<MealTypeAt(FirstPos(MealTokens,
                                LAMBDA x : Has(LowerText(user_query), x))),
            SuggestionToken(FirstPos(QueryCuisines,
                                LAMBDA k : Has(LowerText(user_query), k)),
                            cuisine_sidebar)>>)

\* ------------------------------------------------- free_chat_response
\* the most ingredient lines a grocery reply lists (lines 1342, 1358)
GroceryCap == 30

\* the slots the grocery reply reads: the first day of a multi-day plan,
\* the whole mapping of a single-day plan (lines 1331-1350)
GrocerySlots(p) ==
    IF \E k \in DOMAIN p.meals : k \notin {MealNames[m] : m \in 1..Len(MealNames)}
    THEN p.meals[DayKey(0)]
    ELSE p.meals

\* the ingredient lines of the slots from position m on, in the order the
\* loops of lines 1334-1348 meet them
RECURSIVE SlotLines(_, _)
SlotLines(slots, m) ==
    IF m > Len(MealNames) THEN <<>>
    ELSE (IF MealNames[m] \in DOMAIN slots
          THEN slots[MealNames[m]][1].recipe.ingredients ELSE <<>>)
         \o SlotLines(slots, m + 1)

\* the first GroceryCap lines not seen before, in order (lines 1342, 1358)
Distinct(lines) ==
    LET pairs == SelectSeq([j \in 1..Len(lines) |-> <<j, lines[j]>>],
                     LAMBDA p : \A l \in 1..(p[1] - 1) : lines[l] # p[2])
    IN [j \in 1..Min(Len(pairs), GroceryCap) |-> pairs[j][2]]

\* lines 1323-1366
GroceryReply(p) ==
    IF p = NoPlan THEN Reply("no_plan_yet", <<>>)
    ELSE Reply("grocery_hints",
               Distinct(SlotLines(GrocerySlots(p), 1)))

\* lines 1370-1392: the first canonical recipe matching the dish (a text),
\* "" when there is none; the empty dish is in every key, so it matches the
\* first key of CANONICAL_INGS (line 1140)
CanonicalKeyFor(dish) ==
    IF dish = <<>> THEN "Poha with peas"
    ELSE IF Len(dish) = 1 THEN CanonicalKeyOfPhrase(Lower(dish[1]))
    ELSE ""

RecipeReply(cat, k, dish) ==
    IF k # ""
    THEN Reply("recipe", <<k, IF MatchPos(cat, k) > 0 THEN "steps"
                              ELSE "short steps">>)
    ELSE Reply("no_recipe", dish)

\* dish = meta.get("dish", "") or text
DishAsked(meta, text) ==
    IF Get(meta, "dish", <<>>) # <<>> THEN meta["dish"] ELSE text

\* lines 1425-1435
CuisineReply(c, text, cuisine_sidebar) ==
    IF Has(c, "south") THEN Reply("south_indian_idea", <<>>)
    ELSE IF Has(c, "north") THEN Reply("north_indian_idea", <<>>)
    ELSE create_suggestion_block(text, cuisine_sidebar)

\* lines 1445-1456
LifestyleReply(q) ==
    IF Has(q, "bloated") THEN Reply("bloated", <<>>)
    ELSE IF Has(q, "period") \/ Has(q, "during periods")
    THEN Reply("periods", <<>>)
    ELSE IF Has(q, "hostel") \/ Has(q, "travel") \/ Has(q, "travel-friendly")
    THEN Reply("hostel_travel", <<>>)
    ELSE Reply("lifestyle_tip", <<>>)

\* food_terms of line 1468
FoodTerms ==
    {"dish", "recipe", "meal", "mexican", "indian", "chinese", "breakfast",
     "lunch", "dinner", "snack", "vegan", "vegetarian", "keto", "low-carb",
     "what to eat"}

\* lines 1466-1495: what a text gets when no intent branch returned
FallbackReply(text, cuisine_sidebar) ==
    IF \E ft \in FoodTerms : Has(LowerText(text), ft)
    THEN create_suggestion_block(text, cuisine_sidebar)
    ELSE Reply("fallback", <<>>)

\* lines 1272-1463: the branches on the intent
IntentReply(intent, meta, text, cuisine_sidebar, p, cat) ==
    CASE intent = "urgent" -> Reply("urgent", <<>>)
      [] intent = "ate" ->
             AteReply(make_compensation_advice(estimate_calories_from_text(
                 WordsOf(LowerText(Get(meta, "items", text))))))
      [] intent = "pregnancy" -> Reply("pregnancy", <<>>)
      [] intent = "allergic_reaction" -> Reply("allergic_reaction", <<>>)
      [] intent = "supplement_tablet" -> Reply("supplement_tablet", <<>>)
      [] intent = "supplement_query" ->
             Reply("supplement_query",
                   IF Has(LowerText(text), "preg") \/ Has(LowerText(text), "medic")
                   THEN <<"consult note">> ELSE <<>>)
      [] intent = "grocery_request" -> GroceryReply(p)
      [] intent = "recipe_request" ->
             RecipeReply(cat, CanonicalKeyFor(DishAsked(meta, text)),
                         DishAsked(meta, text))
      [] intent \in {"goal_lose", "goal_gain", "goal_muscle", "goal_maintain"} ->
             Reply(intent, <<>>)
      [] intent = "workout_timing" -> Reply("workout_timing", <<>>)
      [] intent = "cuisine_request" ->
             CuisineReply(Get(meta, "cuisine", <<"indian">>), text,
                          cuisine_sidebar)
      [] intent = "macro_calorie" -> Reply("macro_calorie", <<>>)
      [] intent = "lifestyle" ->
             LifestyleReply(Get(meta, "text", LowerText(text)))
      [] intent = "swap" ->
             (IF Get(meta, "from", <<>>) # <<>> /\ Get(meta, "to", <<>>) # <<>>
              THEN Reply("swap_noted", meta["from"] \o <<"->">> \o meta["to"])
              ELSE Reply("swap_noted", <<>>))
      [] intent = "dislike" -> Reply("dislike_noted", Get(meta, "items", <<>>))
      [] OTHER -> FallbackReply(text, cuisine_sidebar)

ResponseForMut(serious, intent, meta, text, cuisine_sidebar, p, cat) ==
    IF serious # "" /\ intent \notin {"urgent", "ate"} THEN Referral(serious)
    ELSE IntentReply(intent, meta, text, cuisine_sidebar, p, cat)

\* the referral of lines 1266-1270 for a reason, else the intent branches
ResponseFor(serious, intent, meta, text, cuisine_sidebar, p, cat) ==
    IF serious # "" THEN Referral(serious)
    ELSE IntentReply(intent, meta, text, cuisine_sidebar, p, cat)

free_chat_response(intent, meta, text, cuisine_sidebar, p, cat) ==
    ResponseFor(is_serious_query(text), intent, meta, text, cuisine_sidebar,
                p, cat)

\* ------------------------------------------ SpecCal: logging a snack
\* the foods a logged text names, and the words that name them
LoggedFoods == {"biscuits", "chocolate bar", "apple", "cookies", "rice"}

FoodWords(f) ==
    CASE f = "chocolate bar" -> <<"chocolate", "bar">>
      [] OTHER -> <<f>>

\* the per-item value of the table for a named food, 0 when it has none
PerItem(f) ==
    CASE f = "biscuits" -> 40
      [] f = "chocolate bar" -> 230
      [] f = "apple" -> 80
      [] f = "cookies" -> 70
      [] OTHER -> 0

CountWord(c) ==
    CASE c = 1 -> "a"
      [] c = 2 -> "2"
      [] c = 3 -> "3"
      [] OTHER -> "4"

LoggedItems == [cnt : 1..MaxCount, food : LoggedFoods]

Connectors == {"and", ","}

\* the words of "2 biscuits and a chocolate bar"
RECURSIVE TextOf(_, _)
TextOf(items, seps) ==
    IF items = <<>> THEN <<>>
    ELSE <<CountWord(Head(items).cnt)>> \o FoodWords(Head(items).food)
         \o (IF Tail(items) = <<>> THEN <<>>
             ELSE <<Head(seps)>> \o TextOf(Tail(items), Tail(seps)))

CalIdle == [pc |-> "idle", items |-> <<>>, seps |-> <<>>, text |-> <<>>,
            kcal |-> 0, msg |-> make_compensation_advice(0)]

\* ------------------------------------------------- parts not in use
\* the values the variables of a part keep in the specifications that do
\* not exercise it
ChooseUnused == sc = ScIdle /\ scMemo = ScIdle /\ scCalls = 0

CalUnused == cal = CalIdle

PbIdle == [pc |-> "idle"]

\* generate_synthetic_recipe is not running and was not called
GenIdle == [pc |-> "idle", calls |-> 0]

PlanUnused == SAMPLE_RECIPES = <<>> /\ pb = PbIdle

\* no handler is running
HandlerIdle == [pc |-> "idle"]

\* no plan has been stored
NoRequest == [args |-> PlanArgs("", {}, 0, "", FALSE), by |-> ""]

\* the session defaults of lines 1561-1566; None is "None"
AppUnused ==
    /\ plan = NoPlan
    /\ assistant_reply = NoReply
    /\ last_intent = "None"
    /\ handler = HandlerIdle
    /\ runs = 0
    /\ built_for = NoRequest

\* free_chat_response is not running
ChatIdle == [pc |-> "idle"]

\* parse_message_intent is not running
ParseIdle == [pc |-> "idle"]


InitCal ==
    /\ salt = 0
    /\ ChooseUnused
    /\ cal = CalIdle
    /\ PlanUnused
    /\ AppUnused
    /\ chat = ChatIdle
    /\ parse = ParseIdle
    /\ gen = GenIdle
    /\ llm_calls = 0

\* the user logs a text naming 1..MaxItems foods
CalLog ==
    /\ cal.pc = "idle"
    /\ \E n \in 1..MaxItems :
         \E items \in [1..n -> LoggedItems], seps \in [1..(n - 1) -> Connectors] :
            cal' = [CalIdle EXCEPT !.pc = "logged", !.items = items,
                                   !.seps = seps, !.text = TextOf(items, seps)]
    /\ UNCHANGED <<salt, appVars, chatVars, chooseVars, planVars>>

\* kcal = estimate_calories_from_text(items)
CalEstimate ==
    /\ cal.pc = "logged"
    /\ cal' = [cal EXCEPT !.pc = "estimated",
                          !.kcal = estimate_calories_from_text(cal.text)]
    /\ UNCHANGED <<salt, appVars, chatVars, chooseVars, planVars>>

\* advice = make_compensation_advice(kcal)
CalAdvise ==
    /\ cal.pc = "estimated"
    /\ cal' = [cal EXCEPT !.pc = "done",
                          !.msg = make_compensation_advice(cal.kcal)]
    /\ UNCHANGED <<salt, appVars, chatVars, chooseVars, planVars>>

NextCal == CalLog \/ CalEstimate \/ CalAdvise

SpecCal == InitCal /\ [][NextCal]_vars

RECURSIVE CountedSum(_)
CountedSum(items) ==
    IF items = <<>> THEN 0
    ELSE Head(items).cnt * PerItem(Head(items).food) + CountedSum(Tail(items))

\* C10: the estimate of a text naming known foods with optional counts in
\* one comma-free segment is the sum of count times the per-item value, and
\* the compensation message shows it; "2 biscuits and a chocolate bar" gives
\* 2*40 + 230 = 310.
C10_CountTimesValue ==
    (/\ cal.pc = "done"
     /\ \A j \in 1..Len(cal.items) : PerItem(cal.items[j].food) > 0
     /\ \A j \in 1..Len(cal.seps) : cal.seps[j] # ",")
        => /\ cal.kcal = CountedSum(cal.items)
           /\ cal.msg.kind = "snack_estimate"
           /\ cal.msg.kcal = CountedSum(cal.items)

\* ------------------------------------------------ SpecChoose: the chooser
OptionItems == {"a", "b"}

OptionLists == UNION {[1..n -> OptionItems] : n \in 0..MaxOpts}

ScArgs(s) == <<s.seed, s.options, s.k>>

InitChoose ==
    /\ salt \in 0..(Salts - 1)
    /\ sc = ScIdle
    /\ scMemo = ScIdle
    /\ scCalls = 0
    /\ CalUnused
    /\ PlanUnused
    /\ AppUnused
    /\ chat = ChatIdle
    /\ parse = ParseIdle
    /\ gen = GenIdle
    /\ llm_calls = 0

\* a caller invokes _stable_choices(seed, options, k); scMemo remembers one of
\* the calls that returned earlier
ScCall ==
    /\ sc.pc \in {"idle", "done"}
    /\ scCalls < MaxCalls
    /\ \E seed \in 0..MaxSeed, options \in OptionLists, k \in 1..MaxK :
          sc' = ScStart(seed, options, k)
    /\ scCalls' = scCalls + 1
    /\ scMemo' \in (IF sc.pc = "done" THEN {sc, scMemo} ELSE {scMemo})
    /\ UNCHANGED <<salt, appVars, chatVars, calVars, planVars>>

ScLoopStep ==
    /\ ScLooping(sc)
    /\ sc' = ScIter(sc)
    /\ UNCHANGED <<salt, appVars, chatVars, scMemo, scCalls, calVars, planVars>>

ScExit ==
    /\ sc.pc = "loop"
    /\ ~ScLooping(sc)
    /\ sc' = ScReturn(sc)
    /\ UNCHANGED <<salt, appVars, chatVars, scMemo, scCalls, calVars, planVars>>

NextChoose == ScCall \/ ScLoopStep \/ ScExit

SpecChoose == InitChoose /\ [][NextChoose]_vars

C9_ReturnsMinKN ==
    LET m == Min(sc.k, Len(sc.options)) IN
    /\ sc.pc = "done" =>
          /\ Len(sc.res) = m
          /\ \A a, b \in 1..Len(sc.picks) : a # b => sc.picks[a] # sc.picks[b]
    /\ (sc.pc = "loop" /\ Len(sc.picks) >= m) => ~ScLooping(sc)

\* ------------------------------------------- SpecPlan: building one plan
\* the avoid lists of a request: avoid_list of line 1724 is built from a
\* set, so only the set of its terms matters
AvoidLists ==
    {S \in SUBSET {AvoidTermSeq[j] : j \in 1..Len(AvoidTermSeq)} :
        Cardinality(S) <= MaxAvoid}

\* the values of freq_map (line 1739) the builder tells apart
Frequencies == {"prefer_new_daily", "repeat"}

\* an avoid list that matches every dish name a plan without a cuisine can
\* get: dislikes "a, i"
AllHating == {"a", "i"}

PlanRequests ==
    {PlanArgs(CUISINE_MAP(c), S, days, f, vegan) :
        c \in Cuisines, S \in AvoidLists, days \in {1, 7}, f \in Frequencies,
        vegan \in BOOLEAN}
    \cup {PlanArgs("", AllHating, 1, f, FALSE) : f \in Frequencies}
    \cup {PlanArgs(CUISINE_MAP("Indian (South)"), {}, 1, "repeat", vegan) :
              vegan \in BOOLEAN}

InitPlan ==
    /\ salt \in 0..(Salts - 1)
    /\ ChooseUnused
    /\ CalUnused
    /\ SAMPLE_RECIPES = SeedRecipes
    /\ pb = PbIdle
    /\ AppUnused
    /\ chat = ChatIdle
    /\ parse = ParseIdle
    /\ gen = GenIdle
    /\ llm_calls = 0

\* safe_sample_recipes is called
PbCall ==
    /\ pb.pc = "idle"
    /\ \E args \in PlanRequests : pb' = PlanStart(args)
    /\ UNCHANGED <<salt, appVars, chatVars, chooseVars, calVars, SAMPLE_RECIPES>>

\* _ensure_name_pool gathers and filters the names of the meal
PbGather ==
    /\ pb.pc = "gather"
    /\ pb' = PlanGather(SAMPLE_RECIPES, pb)
    /\ UNCHANGED <<salt, appVars, chatVars, chooseVars, calVars, SAMPLE_RECIPES>>

\* one attempt of the padding loop
PbPad ==
    /\ PadLooping(pb)
    /\ LET r == PlanPad(SAMPLE_RECIPES, pb)
       IN pb' = r.b /\ SAMPLE_RECIPES' = r.cat
    /\ UNCHANGED <<salt, appVars, chatVars, chooseVars, calVars>>

\* the padding loop is left and _ensure_name_pool returns
PbPoolDone ==
    /\ pb.pc = "pad"
    /\ ~PadLooping(pb)
    /\ pb' = PlanPoolDone(pb)
    /\ UNCHANGED <<salt, appVars, chatVars, chooseVars, calVars, SAMPLE_RECIPES>>

\* the slot of one day and meal is filled
PbPlace ==
    /\ pb.pc = "place"
    /\ pb' = PlanPlace(SAMPLE_RECIPES, pb)
    /\ UNCHANGED <<salt, appVars, chatVars, chooseVars, calVars, SAMPLE_RECIPES>>

\* the plan is returned
PbReturn ==
    /\ pb.pc = "built"
    /\ pb' = PlanReturn(pb)
    /\ UNCHANGED <<salt, appVars, chatVars, chooseVars, calVars, SAMPLE_RECIPES>>

NextPlan ==
    \/ PbCall
    \/ PbGather
    \/ PbPad
    \/ PbPoolDone
    \/ PbPlace
    \/ PbReturn

SpecPlan == InitPlan /\ [][NextPlan]_vars

\* the names of a pool
Names(pool) == {pool[j] : j \in 1..Len(pool)}

\* the call is placing or has placed dishes under "prefer new daily"
PlacingNew ==
    /\ pb.pc \in {"place", "built", "done"}
    /\ pb.args.frequency = "prefer_new_daily"

\* C1: a returned plan has exactly the day keys day_1..day_N, each with
\* exactly the four meal slots holding one Entry each; for days = 1 the
\* meals mapping is the bare four-slot mapping
FourSlots(slots) ==
    /\ DOMAIN slots = Names(MealNames)
    /\ \A s \in DOMAIN slots : Len(slots[s]) = 1

C1_PlanShape ==
    pb.pc = "done" =>
        IF pb.args.days = 1 THEN FourSlots(pb.plan.meals)
        ELSE /\ DOMAIN pb.plan.meals
                    = {DayKey(d) : d \in 0..(pb.args.days - 1)}
             /\ \A k \in DOMAIN pb.plan.meals : FourSlots(pb.plan.meals[k])

C1_Witness ==
    /\ pb.pc = "done"
    /\ pb.args.days = 1
    /\ "breakfast" \in DOMAIN pb.plan.meals

\* C2: under "prefer new daily" a slot's name is chosen a second time only
\* after every name of the slot's pool has been chosen
C2_NoRepeatUntilExhausted ==
    PlacingNew =>
        \A m \in 1..Len(MealNames) :
            \A i \in 1..Len(pb.used[m]) :
                (\E l \in 1..(i - 1) : pb.used[m][l] = pb.used[m][i])
                    => \A p \in Names(pb.pools[m]) :
                           \E l \in 1..(i - 1) : pb.used[m][l] = p

C2_Witness ==
    /\ PlacingNew
    /\ \E m \in 1..Len(MealNames) :
           \E i \in 1..Len(pb.used[m]) :
               \E l \in 1..(i - 1) : pb.used[m][l] = pb.used[m][i]

\* C3: under "prefer new daily", a name chosen after every name of the
\* slot's pool has been used has the least usage count so far, the first
\* in name order among those, and the usage counts of two names of the
\* pool never differ by more than 1
C3_LeastUsedBalanced ==
    PlacingNew =>
        \A m \in 1..Len(MealNames) :
            LET pool == Names(pb.pools[m])
                Before(i) == SubSeq(pb.used[m], 1, i - 1)
            IN /\ \A i \in 1..Len(pb.used[m]) :
                      (\A p \in pool : InSeq(p, Before(i)))
                          => \A q \in pool :
                                 \/ Count(pb.used[m][i], Before(i))
                                        < Count(q, Before(i))
                                 \/ /\ Count(pb.used[m][i], Before(i))
                                           = Count(q, Before(i))
                                    /\ NameRank(pb.used[m][i]) <= NameRank(q)
               /\ \A p, q \in pool :
                      Count(p, pb.used[m]) - Count(q, pb.used[m]) <= 1

C3_Witness ==
    /\ PlacingNew
    /\ pb.args.days = 7
    /\ \E m \in 1..Len(MealNames) :
           /\ Cardinality(Names(pb.pools[m])) = 4
           /\ Len(pb.used[m]) = 7

\* C4: no Entry of a returned plan whose recipe is one of the seed recipes
\* lists an ingredient that contains a term of the avoid list (the Entries
\* of synthetic recipes, which the claim partly exempts, are not looked at)
SeedIngredients ==
    {SeedRecipes[j].ingredients : j \in 1..Len(SeedRecipes)}

EntriesOf(p, days) ==
    IF days = 1 THEN {p.meals[s][1] : s \in DOMAIN p.meals}
    ELSE UNION {{p.meals[k][s][1] : s \in DOMAIN p.meals[k]} :
                   k \in DOMAIN p.meals}

C4_NoAvoidedIngredient ==
    pb.pc = "done" =>
        \A e \in EntriesOf(pb.plan, pb.args.days) :
            e.recipe.ingredients \in SeedIngredients
                => \A l \in 1..Len(e.recipe.ingredients) :
                       ~AnyIn(pb.args.dislikes, e.recipe.ingredients[l])

\* ------------------------------------- SpecChat: the Chat Responder
\* the phrases of the texts the responder is called with
ReplyVocab ==
    {"diabetes", "Diabetes", "metformin", "emergency", "i ate", "2 biscuits",
     "pregnant", "meal plan", "bloated", "south indian", "and", "hello"}

\* the texts of at most MaxPhrases phrases of a vocabulary
Texts(vocab) == UNION {[1..n -> vocab] : n \in 0..MaxPhrases}

\* the widgets of the sidebar that the handlers read: the cuisine, the
\* dislikes and allergies boxes, the weekly checkbox, the frequency and
\* whether "Vegan" is among the dietary preferences (lines 1579-1620)
DefaultSidebar ==
    [cuisine |-> "No preference", dislikes |-> "", allergies |-> "",
     weekly |-> FALSE, freq |-> "Prefer new recipe daily", vegan |-> FALSE]

\* the sidebars of the sessions modelled: the defaults, and a user who asks
\* for Mexican weekly plans and avoids two things
Sidebars ==
    {DefaultSidebar,
     [DefaultSidebar EXCEPT !.cuisine = "Mexican", !.dislikes = "bowl",
                            !.allergies = "corn", !.weekly = TRUE]}

InitChat ==
    /\ salt = 0
    /\ ChooseUnused
    /\ CalUnused
    /\ SAMPLE_RECIPES = SeedRecipes
    /\ pb = PbIdle
    /\ AppUnused
    /\ chat = ChatIdle
    /\ parse = ParseIdle
    /\ gen = GenIdle
    /\ llm_calls = 0

\* free_chat_response(intent, meta, text, user_payload) is called with any
\* intent label, with the metadata the parser gives for the text or with
\* none, and with a text
ChatCall ==
    /\ chat.pc = "idle"
    /\ \E intent \in IntentLabels, text \in Texts(ReplyVocab),
          parsed \in BOOLEAN, sb \in Sidebars :
          chat' = [pc |-> "called", intent |-> intent,
                   meta |-> IF parsed THEN parse_message_intent(text).meta
                            ELSE EmptyMeta,
                   text |-> text, cuisine |-> sb.cuisine, reply |-> NoReply]
    /\ UNCHANGED <<salt, chooseVars, calVars, planVars, appVars, parse, gen,
                   llm_calls>>

\* the call returns its reply
ChatRespond ==
    /\ chat.pc = "called"
    /\ chat' = [chat EXCEPT !.pc = "done",
                            !.reply = free_chat_response(chat.intent,
                                          chat.meta, chat.text, chat.cuisine,
                                          plan, SAMPLE_RECIPES)]
    /\ UNCHANGED <<salt, chooseVars, calVars, planVars, appVars, parse, gen,
                   llm_calls>>

NextChat == ChatCall \/ ChatRespond

SpecChat == InitChat /\ [][NextChat]_vars

\* the text contains a serious-medical keyword or a prescription-drug name
SeriousText(text) ==
    \/ \E j \in 1..Len(SeriousTerms) : Has(LowerText(text), SeriousTerms[j])
    \/ \E l \in 1..Len(text) : Lower(text[l]) \in DrugPhrases

\* C6: whatever the intent label and the metadata, the reply to a text
\* that contains a serious-medical keyword or a prescription-drug name is
\* the clinician-referral message, never the template of the intent
C6_SeriousAlwaysReferred ==
    (chat.pc = "done" /\ SeriousText(chat.text))
        => chat.reply.kind = "referral"

\* a text naming an emergency, called with the intent urgent, got the
\* referral
C6_Witness ==
    /\ chat.pc = "done"
    /\ chat.intent = "urgent"
    /\ Has(chat.text, "emergency")
    /\ chat.reply = Referral("emergency")

\* ====================================================== the two handlers
\* [d.strip() for d in box.split(",") if d.strip()], lowercased, as a set
\* (lines 1722-1724); a box holds nothing or one term
BoxTerms(box) == IF box = "" THEN {} ELSE {box}

\* freq_map.get(freq_variety, "prefer_new_daily") (lines 1739-1743, 1820)
freq_map(f) == IF f = "Repeat favorites" THEN "repeat" ELSE "prefer_new_daily"

\* the call of safe_sample_recipes that build_and_store_plan makes
BuildArgs(sb, days) ==
    PlanArgs(CUISINE_MAP(sb.cuisine),
             BoxTerms(sb.dislikes) \cup BoxTerms(sb.allergies), days,
             freq_map(sb.freq), sb.vegan)

\* make_personalized_blurb: the cuisine hint, the boxes (x or "none") and
\* which sample lines are shown (lines 1656-1657, 1669, 1685)
make_personalized_blurb(sb) ==
    Reply("blurb",
          <<sb.cuisine,
            IF sb.allergies = "" THEN "none" ELSE sb.allergies,
            IF sb.dislikes = "" THEN "none" ELSE sb.dislikes,
            IF sb.cuisine \in {"Indian (South)", "Indian (North)",
                               "Indian (All regions)"}
            THEN "indian samples" ELSE "general samples">>)

\* the texts typed into the ask box
AskTexts ==
    {<<"diabetes">>, <<"i ate", "2 biscuits">>, <<"i ate", "diabetes">>,
     <<"meal plan">>, <<"meal plan", "diabetes">>}

\* RULE_BASED of lines 1851-1856
RULE_BASED == {"urgent", "pregnancy", "allergic_reaction", "ate"}

\* days of line 1866
AskDays(text, sb) ==
    IF Has(text, "7") \/ Has(text, "weekly") \/ sb.weekly THEN 7 ELSE 1

Init ==
    /\ salt \in 0..(Salts - 1)
    /\ ChooseUnused
    /\ CalUnused
    /\ chat = ChatIdle
    /\ parse = ParseIdle
    /\ gen = GenIdle
    /\ llm_calls = 0
    /\ SAMPLE_RECIPES = SeedRecipes
    /\ pb = PbIdle
    /\ AppUnused

\* the Generate button is pressed: the handler calls build_and_store_plan
\* (lines 1807-1822)
GenerateFrom(sidebars, limit) ==
    /\ handler.pc = "idle"
    /\ runs < limit
    /\ \E sb \in sidebars :
          /\ handler' = [pc |-> "generate", sidebar |-> sb, text |-> <<>>]
          /\ pb' = PlanStart(BuildArgs(sb, IF sb.weekly THEN 7 ELSE 1))
    /\ runs' = runs + 1
    /\ llm_calls' = 0
    /\ UNCHANGED <<salt, chooseVars, calVars, chat, parse, gen,
                   SAMPLE_RECIPES, plan, assistant_reply, last_intent,
                   built_for>>

\* the Generate button in the sessions of Sidebars
Generate == GenerateFrom(Sidebars, MaxRuns)

\* a plan is stored only when the session holds none
GenerateStoreOnce ==
    /\ handler.pc = "generate"
    /\ pb.pc \in {"done", "raised"}
    /\ IF pb.pc = "done"
       THEN /\ plan' = IF plan = NoPlan THEN pb.plan ELSE plan
            /\ built_for' = [args |-> pb.args, by |-> "generate"]
            /\ assistant_reply' = make_personalized_blurb(handler.sidebar)
       ELSE /\ assistant_reply' = Reply("Failed to generate plan: ", <<pb.exc>>)
            /\ UNCHANGED <<plan, built_for>>
    /\ pb' = PbIdle
    /\ handler' = HandlerIdle
    /\ UNCHANGED <<salt, chooseVars, calVars, chatVars, SAMPLE_RECIPES,
                   last_intent, runs>>

\* the exception of build_and_store_plan leaves the handler: nothing is
\* stored
GenerateStoreMut ==
    /\ handler.pc = "generate"
    /\ pb.pc \in {"done", "raised"}
    /\ IF pb.pc = "done"
       THEN /\ plan' = pb.plan
            /\ built_for' = [args |-> pb.args, by |-> "generate"]
            /\ assistant_reply' = make_personalized_blurb(handler.sidebar)
       ELSE UNCHANGED <<plan, built_for, assistant_reply>>
    /\ pb' = PbIdle
    /\ handler' = HandlerIdle
    /\ UNCHANGED <<salt, chooseVars, calVars, chatVars, SAMPLE_RECIPES,
                   last_intent, runs>>

\* lines 1736 and 1822-1826: the plan is stored and the blurb becomes the
\* reply, or the exception is caught
GenerateStore ==
    /\ handler.pc = "generate"
    /\ pb.pc \in {"done", "raised"}
    /\ IF pb.pc = "done"
       THEN /\ plan' = pb.plan
            /\ built_for' = [args |-> pb.args, by |-> "generate"]
            /\ assistant_reply' = make_personalized_blurb(handler.sidebar)
       ELSE /\ assistant_reply' = Reply("Failed to generate plan: ", <<pb.exc>>)
            /\ UNCHANGED <<plan, built_for>>
    /\ pb' = PbIdle
    /\ handler' = HandlerIdle
    /\ UNCHANGED <<salt, chooseVars, calVars, chatVars, SAMPLE_RECIPES,
                   last_intent, runs>>

\* the Ask button is pressed with a non-empty text: the intent is parsed
\* and stored (lines 1829-1833)
AskSubmitWith(sidebars, texts, limit) ==
    /\ handler.pc = "idle"
    /\ runs < limit
    /\ \E text \in texts, sb \in sidebars :
          /\ handler' = [pc |-> "ask", sidebar |-> sb, text |-> text]
          /\ last_intent' = parse_message_intent(text).intent
    /\ runs' = runs + 1
    /\ llm_calls' = 0
    /\ UNCHANGED <<salt, chooseVars, calVars, chat, parse, gen, planVars,
                   plan, assistant_reply, built_for>>

\* the Ask button with one of the texts of AskTexts
AskSubmitFrom(sidebars, limit) == AskSubmitWith(sidebars, AskTexts, limit)

\* the Ask button in the sessions of Sidebars
AskSubmit == AskSubmitFrom(Sidebars, MaxRuns)

\* lines 1858-1861: a rule-based intent is answered by free_chat_response
AskRule ==
    /\ handler.pc = "ask"
    /\ last_intent \in RULE_BASED
    /\ assistant_reply' =
          free_chat_response(last_intent,
                             parse_message_intent(handler.text).meta,
                             handler.text, handler.sidebar.cuisine, plan,
                             SAMPLE_RECIPES)
    /\ handler' = HandlerIdle
    /\ UNCHANGED <<salt, chooseVars, calVars, chatVars, planVars, plan,
                   last_intent, runs, built_for>>

\* lines 1864-1871: the intent generate_plan calls build_and_store_plan
AskPlan ==
    /\ handler.pc = "ask"
    /\ last_intent = "generate_plan"
    /\ handler' = [handler EXCEPT !.pc = "ask_plan"]
    /\ pb' = PlanStart(BuildArgs(handler.sidebar,
                                 AskDays(handler.text, handler.sidebar)))
    /\ UNCHANGED <<salt, chooseVars, calVars, chatVars, SAMPLE_RECIPES, plan,
                   assistant_reply, last_intent, runs, built_for>>

\* the exception of the build clears the stored plan
AskStoreClear ==
    /\ handler.pc = "ask_plan"
    /\ pb.pc \in {"done", "raised"}
    /\ IF pb.pc = "done"
       THEN /\ plan' = pb.plan
            /\ built_for' = [args |-> pb.args, by |-> "ask"]
            /\ assistant_reply' = make_personalized_blurb(handler.sidebar)
       ELSE /\ assistant_reply' =
                   Reply("Sorry - couldn't process that: ", <<pb.exc>>)
            /\ plan' = NoPlan
            /\ UNCHANGED built_for
    /\ pb' = PbIdle
    /\ handler' = HandlerIdle
    /\ UNCHANGED <<salt, chooseVars, calVars, chatVars, SAMPLE_RECIPES,
                   last_intent, runs>>

\* lines 1736, 1871 and 1879-1882: the plan is stored and the blurb
\* becomes the reply, or the exception is caught
AskStore ==
    /\ handler.pc = "ask_plan"
    /\ pb.pc \in {"done", "raised"}
    /\ IF pb.pc = "done"
       THEN /\ plan' = pb.plan
            /\ built_for' = [args |-> pb.args, by |-> "ask"]
            /\ assistant_reply' = make_personalized_blurb(handler.sidebar)
       ELSE /\ assistant_reply' =
                   Reply("Sorry - couldn't process that: ", <<pb.exc>>)
            /\ UNCHANGED <<plan, built_for>>
    /\ pb' = PbIdle
    /\ handler' = HandlerIdle
    /\ UNCHANGED <<salt, chooseVars, calVars, chatVars, SAMPLE_RECIPES,
                   last_intent, runs>>

\* the call of the language model raised and the exception left
\* free_chat_response_groq
free_chat_response_groqMut(failed) ==
    [raised |-> failed, value |-> Reply("llm", <<>>)]

\* free_chat_response_groq (lines 1788-1802): the text of the language
\* model, or the message of the except branch when the call raised; the
\* function itself returns in both cases
free_chat_response_groq(failed) ==
    [raised |-> FALSE,
     value |-> IF failed THEN Reply("Error generating response: ", <<>>)
               ELSE Reply("llm", <<>>)]

\* the call of the language model is made again after it raised
AskLLMRetry ==
    /\ handler.pc = "ask"
    /\ last_intent \notin RULE_BASED \cup {"generate_plan"}
    /\ \E failed \in BOOLEAN :
          /\ handler' = [pc |-> "ask_llm", sidebar |-> handler.sidebar,
                         text |-> handler.text, failed |-> failed]
          /\ llm_calls' = llm_calls + (IF failed THEN 2 ELSE 1)
    /\ UNCHANGED <<salt, chooseVars, calVars, chat, parse, gen, planVars,
                   plan, assistant_reply, last_intent, runs, built_for>>

\* lines 1873-1875 and 1788-1797: every other intent goes to the LLM
\* responder, which calls groq_client.chat.completions.create once;
\* whether the call raises is decided outside the program
AskLLM ==
    /\ handler.pc = "ask"
    /\ last_intent \notin RULE_BASED \cup {"generate_plan"}
    /\ \E failed \in BOOLEAN :
          handler' = [pc |-> "ask_llm", sidebar |-> handler.sidebar,
                      text |-> handler.text, failed |-> failed]
    /\ llm_calls' = llm_calls + 1
    /\ UNCHANGED <<salt, chooseVars, calVars, chat, parse, gen, planVars,
                   plan, assistant_reply, last_intent, runs, built_for>>

\* lines 1874-1882: what the responder returns becomes the reply; an
\* exception that left it is caught by the handler
AskLLMStore ==
    /\ handler.pc = "ask_llm"
    /\ LET r == free_chat_response_groq(handler.failed)
       IN assistant_reply' =
             IF r.raised
             THEN Reply("Sorry - couldn't process that: ", <<"llm">>)
             ELSE r.value
    /\ handler' = HandlerIdle
    /\ UNCHANGED <<salt, chooseVars, calVars, chatVars, planVars, plan,
                   last_intent, runs, built_for>>

Next ==
    \/ Generate
    \/ PbGather
    \/ PbPad
    \/ PbPoolDone
    \/ PbPlace
    \/ PbReturn
    \/ GenerateStore
    \/ AskSubmit
    \/ AskRule
    \/ AskPlan
    \/ AskStore
    \/ AskLLM
    \/ AskLLMStore

Spec == Init /\ [][Next]_vars

\* the dish name and the calories of every slot of a plan
SlotView(slots) ==
    [s \in DOMAIN slots |-> <<slots[s][1].name, slots[s][1].calories>>]

PlanView(p, days) ==
    IF days = 1 THEN SlotView(p.meals)
    ELSE [k \in DOMAIN p.meals |-> SlotView(p.meals[k])]

\* C5: when the generate action stores a plan and the plan stored before
\* was built by the generate action for the same sidebar (the same
\* arguments of safe_sample_recipes), the two plans have the same dish name
\* and the same calories in every day and meal slot
C5_SamePlanTwice ==
    [][(/\ handler.pc = "generate"
        /\ pb.pc = "done"
        /\ handler'.pc = "idle"
        /\ built_for = [args |-> pb.args, by |-> "generate"])
          => PlanView(plan', pb.args.days) = PlanView(plan, pb.args.days)]_vars

\* C7: when the ask action ends for a text containing "diabetes", the
\* stored reply is the clinician-referral message
C7_DiabetesReferred ==
    [][(/\ handler.pc \in {"ask", "ask_plan"}
        /\ handler'.pc = "idle"
        /\ Has(LowerText(handler.text), "diabetes"))
          => assistant_reply'.kind = "referral"]_vars

\* ------------------------------------ SpecParse: the Intent Parser
\* the phrases of the texts the parser is called with: the blank, and
\* phrases of every pattern and of none
ParseVocab ==
    {" ", "emergency", "pregnant", "allergic", "anaphylaxis", "tablet",
     "protein powder", "grocery list", "recipe for", "lose weight", "gain",
     "muscle", "maintain", "after workout", "i ate", "swap", "avoid",
     "meal plan", "south indian", "mexican", "300 calories", "bloated",
     "hello", "Diabetes", "2 biscuits", "make me a"}

InitParse ==
    /\ salt = 0
    /\ ChooseUnused
    /\ CalUnused
    /\ PlanUnused
    /\ AppUnused
    /\ chat = ChatIdle
    /\ parse = ParseIdle
    /\ gen = GenIdle
    /\ llm_calls = 0

\* parse_message_intent(text) is called
ParseCall ==
    /\ parse.pc = "idle"
    /\ \E text \in Texts(ParseVocab) : parse' = [pc |-> "called", text |-> text]
    /\ UNCHANGED <<salt, chooseVars, calVars, planVars, appVars, chat, gen,
                   llm_calls>>

\* the call returns the intent and the metadata
ParseReturn ==
    /\ parse.pc = "called"
    /\ parse' = [pc |-> "done", text |-> parse.text,
                 intent |-> parse_message_intent(parse.text).intent,
                 meta |-> parse_message_intent(parse.text).meta]
    /\ UNCHANGED <<salt, chooseVars, calVars, planVars, appVars, chat, gen,
                   llm_calls>>

NextParse == ParseCall \/ ParseReturn

SpecParse == InitParse /\ [][NextParse]_vars

\* the keys a metadata mapping can have
MetaKeys == {"dish", "text", "items", "from", "to", "raw", "cuisine", "q"}

\* no pattern of the parser and no cuisine name is in the text
NoCategory(t) ==
    /\ \A j \in 1..Len(ParseOrder) : ~Matches(t, ParseOrder[j])
    /\ \A j \in 1..Len(CuisineNames) : ~Has(t, CuisineNames[j])
    /\ ~Matches(t, "macro_calorie")
    /\ ~Matches(t, "lifestyle")

\* C11: every call of the Intent Parser returns one label of the fixed set
\* and a metadata mapping; an empty or whitespace-only text gets "none",
\* and a text matching no category gets "question" with the stripped,
\* lowercased text
C11_ParserTotal ==
    parse.pc = "done" =>
        /\ parse.intent \in IntentLabels
        /\ DOMAIN parse.meta \subseteq MetaKeys
        /\ (\A j \in 1..Len(parse.text) : parse.text[j] = " ")
               => parse.intent = "none" /\ parse.meta = EmptyMeta
        /\ ((\E j \in 1..Len(parse.text) : parse.text[j] # " ")
               /\ NoCategory(LowerText(parse.text)))
               => /\ parse.intent = "question"
                  /\ parse.meta = Meta1("q", LowerText(Strip(parse.text)))

\* a text with a blank before a capitalised word of no category came back
\* as a question carrying the word alone, in lower case
C11_Witness ==
    /\ parse.pc = "done"
    /\ parse.text = <<" ", "Diabetes">>
    /\ parse.intent = "question"
    /\ parse.meta = Meta1("q", <<"diabetes">>)

\* C12: a text matching an urgent phrase is labelled urgent; one matching a
\* pregnancy phrase and no urgent phrase is labelled pregnancy; one matching
\* an allergic-reaction phrase and neither of those is labelled
\* allergic_reaction, whatever other phrases the text holds
C12_SafetyPrecedence ==
    parse.pc = "done" =>
        /\ Matches(LowerText(parse.text), "urgent")
               => parse.intent = "urgent"
        /\ (/\ Matches(LowerText(parse.text), "pregnancy")
            /\ ~Matches(LowerText(parse.text), "urgent"))
               => parse.intent = "pregnancy"
        /\ (/\ Matches(LowerText(parse.text), "allergic_reaction")
            /\ ~Matches(LowerText(parse.text), "urgent")
            /\ ~Matches(LowerText(parse.text), "pregnancy"))
               => parse.intent = "allergic_reaction"

\* a text logging food and naming an emergency was labelled urgent
C12_Witness ==
    /\ parse.pc = "done"
    /\ parse.text = <<"i ate", "emergency">>
    /\ parse.intent = "urgent"

\* ------------------------------------------ more on the plans of SpecPlan
\* the Entries of a plan, each with the name of its meal slot
SlotEntries(p, days) ==
    IF days = 1 THEN {<<s, p.meals[s][1]>> : s \in DOMAIN p.meals}
    ELSE UNION {{<<s, p.meals[k][s][1]>> : s \in DOMAIN p.meals[k]} :
                   k \in DOMAIN p.meals}

\* the positions of the Catalog recipes whose title is the name, letter
\* case aside
TitleHits(name) ==
    {j \in 1..Len(SAMPLE_RECIPES) :
        LowerName(SAMPLE_RECIPES[j].title) = LowerName(name)}

\* C13: an Entry whose name is the title of a Catalog recipe, letter case
\* aside, has the calories, ingredients and steps of the first such recipe
\* in insertion order; any other Entry has the default calories of its slot
\* (220 breakfast, 150 snacks, 380 lunch and dinner) and no ingredients or
\* steps
C13_EntryFromFirstMatch ==
    pb.pc = "done" =>
        \A se \in SlotEntries(pb.plan, pb.args.days) :
            IF TitleHits(se[2].name) # {}
            THEN \E j \in TitleHits(se[2].name) :
                     /\ \A l \in TitleHits(se[2].name) : j <= l
                     /\ se[2].calories = SAMPLE_RECIPES[j].cal
                     /\ se[2].recipe.ingredients = SAMPLE_RECIPES[j].ingredients
                     /\ se[2].recipe.steps = SAMPLE_RECIPES[j].steps
            ELSE /\ se[2].calories = (CASE se[1] = "breakfast" -> 220
                                        [] se[1] = "snacks" -> 150
                                        [] OTHER -> 380)
                 /\ se[2].recipe.ingredients = <<>>
                 /\ se[2].recipe.steps = <<>>

\* a returned plan with an Entry taken from a Catalog recipe of its name
\* and a snacks Entry with no recipe
C13_Witness ==
    /\ pb.pc = "done"
    /\ \E se \in SlotEntries(pb.plan, pb.args.days) :
           /\ TitleHits(se[2].name) # {}
           /\ se[2].recipe.ingredients # <<>>
    /\ \E se \in SlotEntries(pb.plan, pb.args.days) :
           /\ TitleHits(se[2].name) = {}
           /\ se[1] = "snacks"

\* C14: safe_sample_recipes never raises, and a returned plan has a name in
\* every slot of every day, also when a pool holds fewer names than days
\* and when the avoid list matches every available name
C14_NeverFailsOnExhaustion ==
    /\ pb.pc # "raised"
    /\ pb.pc = "done" =>
           \A se \in SlotEntries(pb.plan, pb.args.days) : se[2].name # ""

\* C15: when the call of the language model fails during an ask action,
\* the action completes with the reply "Error generating response: ...",
\* not with the message of the handler's own except branch, and the stored
\* plan is left as it was
C15_LlmFailureCaught ==
    [][(handler.pc = "ask_llm" /\ handler.failed)
          => /\ handler'.pc = "idle"
             /\ assistant_reply' = Reply("Error generating response: ", <<>>)
             /\ plan' = plan]_vars

\* a failed call was answered while a plan built earlier is stored
C15_Witness ==
    /\ handler.pc = "idle"
    /\ assistant_reply = Reply("Error generating response: ", <<>>)
    /\ plan # NoPlan

\* ------------------------------------------- sessions with failing builds
\* a user whose dislikes and allergies boxes hold "a" and "i": the avoid
\* list of every build is AllHating
HatingSidebar == [DefaultSidebar EXCEPT !.dislikes = "a", !.allergies = "i"]

FailingSidebars == {DefaultSidebar, HatingSidebar}

GenerateFailing == GenerateFrom(FailingSidebars, MaxFailingRuns)

AskSubmitFailing == AskSubmitFrom(FailingSidebars, MaxFailingRuns)

NextFailing ==
    \/ GenerateFailing
    \/ PbGather
    \/ PbPad
    \/ PbPoolDone
    \/ PbPlace
    \/ PbReturn
    \/ GenerateStore
    \/ AskSubmitFailing
    \/ AskRule
    \/ AskPlan
    \/ AskStore
    \/ AskLLM
    \/ AskLLMStore

SpecFailing == Init /\ [][NextFailing]_vars

\* the build of a handler has raised and the handler is about to end
BuildRaised == handler.pc \in {"generate", "ask_plan"} /\ pb.pc = "raised"

\* the reply templates of the program that begin with "Failed to" (line
\* 1826 is the only one)
FailedToTemplates == {"Failed to generate plan: "}

\* C16 as stated: an exception of plan building in the generate action or
\* in the ask action is caught by the handler and stored as a reply that
\* begins with "Failed to"
C16_FailedToPrefix ==
    [][BuildRaised
          => /\ handler'.pc = "idle"
             /\ assistant_reply'.kind \in FailedToTemplates
             /\ assistant_reply'.detail = <<pb.exc>>]_vars

\* C16 amended: the exception is caught by the handler and stored as the
\* reply, "Failed to generate plan: " and the exception's text in the
\* generate action, "Sorry - couldn't process that: " and the exception's
\* text in the ask action; the handler ends and the stored plan stays
C16_ExceptionsCaught ==
    [][BuildRaised
          => /\ handler'.pc = "idle"
             /\ assistant_reply' =
                   Reply(IF handler.pc = "generate"
                         THEN "Failed to generate plan: "
                         ELSE "Sorry - couldn't process that: ", <<pb.exc>>)
             /\ plan' = plan]_vars

\* an ask action whose build raised IndexError has ended with the message
\* of the ask handler
C16_Witness ==
    /\ handler.pc = "idle"
    /\ assistant_reply =
          Reply("Sorry - couldn't process that: ", <<"IndexError">>)
    /\ Len(SAMPLE_RECIPES) > Len(SeedRecipes)

\* C17: over any sequence of generate and ask actions the Catalog only
\* grows: a call of the generator adds exactly one recipe, under a key the
\* Catalog did not hold, and every step leaves the recipes already there
\* (seed and synthetic) as they were and where they were
C17_CatalogAdditive ==
    [][/\ Len(SAMPLE_RECIPES') >= Len(SAMPLE_RECIPES)
       /\ SubSeq(SAMPLE_RECIPES', 1, Len(SAMPLE_RECIPES)) = SAMPLE_RECIPES
       /\ IF PadLooping(pb)
          THEN /\ Len(SAMPLE_RECIPES') = Len(SAMPLE_RECIPES) + 1
               /\ ~HasKey(SAMPLE_RECIPES,
                          SAMPLE_RECIPES'[Len(SAMPLE_RECIPES')].key)
          ELSE SAMPLE_RECIPES' = SAMPLE_RECIPES]_vars

\* the loop of lines 481-483 has run: a recipe is stored under a key with
\* a numeric suffix, next to the recipe that holds the key without it
C17_Witness ==
    \E j, k \in 1..Len(SAMPLE_RECIPES) :
        /\ Len(SAMPLE_RECIPES[k].key) = 3
        /\ SAMPLE_RECIPES[j].key = Append(SAMPLE_RECIPES[k].key, 2)

\* C18: a generate action whose build succeeded leaves the newly built
\* plan, whole and alone, as the stored plan; and the stored plan changes
\* only when a handler stores the plan its build returned, so that it is
\* always the result of the most recent successful build
C18_PlanReplaced ==
    [][/\ (handler.pc = "generate" /\ pb.pc = "done" /\ handler'.pc = "idle")
           => plan' = pb.plan
       /\ plan' # plan
           => /\ handler.pc \in {"generate", "ask_plan"}
              /\ pb.pc = "done"
              /\ plan' = pb.plan]_vars

\* the one-day plan of a generate action is stored, with the four meals as
\* its keys, after a Mexican weekly build (the only one that adds recipes of
\* cuisine mexican to the Catalog) had stored its seven days
C18_Witness ==
    /\ handler.pc = "idle"
    /\ built_for.by = "generate"
    /\ built_for.args.days = 1
    /\ DOMAIN plan.meals = {MealNames[j] : j \in 1..Len(MealNames)}
    /\ \E j \in 1..Len(SAMPLE_RECIPES) : SAMPLE_RECIPES[j].cuisine = "mexican"

\* Scenario A: cuisine "Indian (South)", nothing avoided, one day, repeat
SouthScenario(args) ==
    /\ args.pref = "indian_south"
    /\ args.dislikes = {}
    /\ args.days = 1
    /\ args.frequency = "repeat"

\* the name is a canonical dish of the token, in any meal
DishOfToken(name, token) ==
    \E j \in 1..Len(MealNames) :
        InSeq(name, CANONICAL_DISHES(token, MealNames[j]))

\* C19: in Scenario A the name of the breakfast Entry is a canonical
\* indian_south or indian breakfast dish or the title of a Catalog recipe
\* of cuisine indian tagged breakfast, it is no Chinese, Mexican or global
\* dish, and the Entry's calories are those of the Catalog recipe with that
\* title, or 220 when there is none
C19_SouthBreakfast ==
    (pb.pc = "done" /\ SouthScenario(pb.args))
        => LET e == pb.plan.meals["breakfast"][1]
           IN /\ \/ InSeq(e.name, CANONICAL_DISHES("indian_south", "breakfast"))
                 \/ InSeq(e.name, CANONICAL_DISHES("indian", "breakfast"))
                 \/ \E j \in 1..Len(SAMPLE_RECIPES) :
                        /\ SAMPLE_RECIPES[j].title = e.name
                        /\ SAMPLE_RECIPES[j].cuisine = "indian"
                        /\ InSeq("breakfast", SAMPLE_RECIPES[j].tags)
              /\ \A token \in {"chinese", "mexican", "global"} :
                     /\ ~DishOfToken(e.name, token)
                     /\ \A j \in 1..Len(SAMPLE_RECIPES) :
                            SAMPLE_RECIPES[j].title = e.name
                                => SAMPLE_RECIPES[j].cuisine # token
              /\ e.calories =
                     IF TitleHits(e.name) = {} THEN 220
                     ELSE SAMPLE_RECIPES[CHOOSE j \in TitleHits(e.name) :
                              \A l \in TitleHits(e.name) : j <= l].cal

\* Scenario A was built: the breakfast is the canonical indian_south dish
\* "Oats upma", which no Catalog recipe is titled after, with 220 kcal
C19_Witness ==
    /\ pb.pc = "done"
    /\ SouthScenario(pb.args)
    /\ pb.plan.meals["breakfast"][1].name = "Oats upma"
    /\ pb.plan.meals["breakfast"][1].calories = 220

\* ============================================ the generator called alone
MaxGenCalls == 1     \* calls of the generator in one behaviour

\* the avoid lists the generator is called with
GenAvoidLists == {{}, {"peanuts"}, {"onion"}, {"corn"}, AllHating}

\* the seed hints: f"{seed_hint_base}_{len(pool)}_{attempts}" (line 605)
GenHints == {[global |-> FALSE, len |-> 0, attempts |-> a] : a \in 0..1}

InitGen ==
    /\ salt \in 0..(Salts - 1)
    /\ ChooseUnused
    /\ CalUnused
    /\ SAMPLE_RECIPES = SeedRecipes
    /\ pb = PbIdle
    /\ AppUnused
    /\ chat = ChatIdle
    /\ parse = ParseIdle
    /\ gen = GenIdle
    /\ llm_calls = 0

\* generate_synthetic_recipe(cuisine_token, meal_type, disliked, seed_hint,
\* diet_pref) is called (line 413)
GenCall ==
    /\ gen.pc \in {"idle", "done"}
    /\ gen.calls < MaxGenCalls
    /\ \E token \in {"global", "mexican", "indian"},
          meal_type \in {"lunch", "snacks"}, disliked \in GenAvoidLists,
          hint \in GenHints, vegan \in BOOLEAN :
          gen' = [pc |-> "called", calls |-> gen.calls, token |-> token,
                  meal_type |-> meal_type, disliked |-> disliked,
                  hint |-> hint, vegan |-> vegan]
    /\ UNCHANGED <<salt, chooseVars, calVars, planVars, appVars, chat, parse,
                   llm_calls>>

\* the call stores its recipe and returns (lines 414-501)
GenReturn ==
    /\ gen.pc = "called"
    /\ SAMPLE_RECIPES' =
          generate_synthetic_recipe(SAMPLE_RECIPES, gen.token, gen.meal_type,
                                    gen.disliked, gen.hint, gen.vegan)
    /\ gen' = [gen EXCEPT !.pc = "done", !.calls = @ + 1]
    /\ UNCHANGED <<salt, chooseVars, calVars, pb, appVars, chat, parse,
                   llm_calls>>

NextGen == GenCall \/ GenReturn

SpecGen == InitGen /\ [][NextGen]_vars

\* the recipe the returned call has stored, and the pool it was made from
Stored == SAMPLE_RECIPES[Len(SAMPLE_RECIPES)]

StoredPool == GEN_POOLS(Stored.cuisine)

\* the vegetables of the stored recipe: its lines f"50g {v}" (line 460)
StoredVegs ==
    {v \in {StoredPool.vegs[j] : j \in 1..Len(StoredPool.vegs)} :
        InSeq("50g " \o v, Stored.ingredients)}

\* the extra and the spice of the stored recipe (lines 461-462)
StoredExtras ==
    {x \in {StoredPool.extras[j] : j \in 1..Len(StoredPool.extras)} :
        InSeq(x, Stored.ingredients)}

StoredSpices ==
    {x \in {StoredPool.spices[j] : j \in 1..Len(StoredPool.spices)} :
        InSeq("Salt and " \o x \o " to taste", Stored.ingredients)}

\* C20: the recipe a call of the generator stores has a vegetable that
\* contains an avoided term only when it has all the vegetables the call
\* chose and each contains one; it always has one extra, one spice and one
\* protein of the pool, avoided or not; and for the token global, the meal
\* snacks and the avoid list ["peanuts"] none of its extra, spice and
\* vegetables contains "peanuts"
C20_FilteredBeforeInsert ==
    gen.pc = "done"
        => /\ (\E v \in StoredVegs : hates(v, gen.disliked))
                => /\ \A v \in StoredVegs : hates(v, gen.disliked)
                   /\ Cardinality(StoredVegs) = Min(2, Len(StoredPool.vegs))
           /\ StoredVegs # {}
           /\ Cardinality(StoredExtras) = 1
           /\ Cardinality(StoredSpices) = 1
           /\ \E j \in 1..Len(StoredPool.proteins) :
                  InSeq("100g " \o StoredPool.proteins[j], Stored.ingredients)
           /\ (gen.token = "global" /\ gen.meal_type = "snacks"
                  /\ gen.disliked = {"peanuts"})
                => \A x \in StoredVegs \cup StoredExtras \cup StoredSpices :
                       ~In("peanuts", x)

\* a Mexican recipe was stored for a user who avoids corn: the filter left
\* it one vegetable of the two chosen
C20_Witness ==
    /\ gen.pc = "done"
    /\ gen.token = "mexican"
    /\ gen.disliked = {"corn"}
    /\ Cardinality(StoredVegs) = 1

\* ===================================== calls of the Plan Builder in a row
MaxBuilds == 2      \* calls of safe_sample_recipes in one process

\* an Indian plan for a user who avoids "a": its padding leaves synthetic
\* Indian and global recipes in the Catalog
EarlierRequest == PlanArgs("indian", {"a"}, 1, "repeat", FALSE)

\* a vegan plan without a cuisine for a user whose dislikes are "g, i, t"
VeganRequest == PlanArgs("", {"g", "i", "t"}, 1, "repeat", TRUE)

\* the plan of the default sidebar
DefaultRequest == PlanArgs("", {}, 1, "prefer_new_daily", FALSE)

HistoryRequests == {EarlierRequest, VeganRequest, DefaultRequest}

\* safe_sample_recipes is called, for the first time or after an earlier
\* call has returned or raised; the Catalog is the one the process holds
PbCallNext ==
    /\ pb.pc \in {"idle", "done", "raised"}
    /\ runs < MaxBuilds
    /\ \E args \in HistoryRequests : pb' = PlanStart(args)
    /\ runs' = runs + 1
    /\ UNCHANGED <<salt, chooseVars, calVars, chatVars, SAMPLE_RECIPES, plan,
                   assistant_reply, last_intent, handler, built_for>>

NextHistory ==
    \/ PbCallNext
    \/ PbGather
    \/ PbPad
    \/ PbPoolDone
    \/ PbPlace
    \/ PbReturn

SpecHistory == InitPlan /\ [][NextHistory]_vars

\* the dairy keywords of line 602
DairyWords == {"paneer", "curd", "buttermilk", "yogurt", "milk"}

\* C21: no Entry of a plan built for a vegan diet has a name that contains
\* a dairy keyword, whatever earlier calls left in the Catalog
C21_VeganNoDairy ==
    (pb.pc = "done" /\ pb.args.vegan)
        => \A se \in SlotEntries(pb.plan, pb.args.days) :
               ~AnyIn(DairyWords, se[2].name)

\* =========================================== one press with every intent
MaxAskRuns == 1     \* button presses handled in a session of SpecAsk

\* texts of the ask box that reach every branch of the ask handler
IntentTexts ==
    {<<"emergency">>, <<"choking">>, <<"pregnant">>, <<"allergic">>,
     <<"i ate", "2 biscuits">>, <<"meal plan">>, <<"make me a">>,
     <<"grocery list">>, <<"lose weight">>, <<"indian">>, <<"hello">>,
     <<"diabetes">>, <<"tablet">>, <<"bloated">>, <<"7-day", "meal plan">>}

GenerateAsk == GenerateFrom(Sidebars, MaxAskRuns)

AskSubmitAsk == AskSubmitWith(Sidebars, IntentTexts, MaxAskRuns)

NextAsk ==
    \/ GenerateAsk
    \/ PbGather
    \/ PbPad
    \/ PbPoolDone
    \/ PbPlace
    \/ PbReturn
    \/ GenerateStore
    \/ AskSubmitAsk
    \/ AskRule
    \/ AskPlan
    \/ AskStore
    \/ AskLLM
    \/ AskLLMStore

SpecAsk == Init /\ [][NextAsk]_vars

\* the handler returns in this step
HandlerEnds == handler.pc # "idle" /\ handler'.pc = "idle"

\* the intent of the text the running ask handler read
AskedIntent == parse_message_intent(handler.text).intent

\* C22: a handler never makes more than one call of the language model;
\* a generate action ends with none, an ask action with a rule-based intent
\* ends with none and with the answer of free_chat_response, an ask action
\* with the intent generate_plan goes to the Plan Builder and ends with
\* none, and an ask action with any other intent ends with exactly one
C22_OneLlmCall ==
    /\ [](llm_calls <= 1)
    /\ [][/\ HandlerEnds =>
               llm_calls' =
                  IF handler.pc = "generate" THEN 0
                  ELSE IF AskedIntent \in RULE_BASED \cup {"generate_plan"}
                  THEN 0 ELSE 1
          /\ (HandlerEnds /\ handler.pc = "ask") =>
                /\ AskedIntent \in RULE_BASED
                /\ assistant_reply' =
                      free_chat_response(AskedIntent,
                                         parse_message_intent(handler.text).meta,
                                         handler.text, handler.sidebar.cuisine,
                                         plan, SAMPLE_RECIPES)
          /\ (handler.pc = "ask" /\ AskedIntent = "generate_plan") =>
                (handler'.pc = "ask_plan" /\ pb'.pc # "idle")]_vars

\* answered presses of every kind: a rule-based intent, a plan request and a
\* text that went to the language model and failed there
C22_Witness ==
    /\ handler.pc = "idle"
    /\ runs = 1
    /\ llm_calls = 1
    /\ last_intent = "question"
    /\ assistant_reply = Reply("Error generating response: ", <<>>)

\* ------------------------------------------- the canonical side table
\* the first base token of the list of line 541 found in the ingredients
\* that CANONICAL_INGS gives for an entry (lines 1139-1152), "other" when
\* they hold none
CanonicalBase(cname) ==
    CASE cname \in {"Poha with peas", "Veg fried rice"} -> "rice"
      [] cname = "Mediterranean buddha bowl" -> "quinoa"
      [] OTHER -> "other"

\* the slots of a plan whose dish has no Catalog title and matches an entry
\* of CANONICAL_INGS
CanonicalSlots(cat, p, days) ==
    {se \in SlotEntries(p, days) :
        /\ MatchPos(cat, se[2].name) = 0
        /\ CanonicalIngsMatch(se[2].name) # ""}

\* C23: a placed dish without a Catalog title whose name matches an entry of
\* the canonical-ingredient table is counted in base_counts under the base
\* token found in that entry's ingredients
C23_CanonicalBaseCounted ==
    pb.pc = "done"
        => \A se \in CanonicalSlots(SAMPLE_RECIPES, pb.plan, pb.args.days) :
              LET tok == CanonicalBase(CanonicalIngsMatch(se[2].name))
              IN /\ CountedBase(SAMPLE_RECIPES, se[2].name) = tok
                 /\ tok \in DOMAIN pb.plan.base_counts

\* ------------------------------------------ the calories of a synthetic
\* the protein and the base of the stored recipe: its lines f"100g
\* {protein}" (line 458) and f"80g {base}", "1 phulka/roti" or f"1 {base}"
\* (lines 452-457)
StoredProtein ==
    CHOOSE x \in {StoredPool.proteins[j] : j \in 1..Len(StoredPool.proteins)} :
        Stored.ingredients[2] = "100g " \o x

StoredBase ==
    CHOOSE x \in {StoredPool.bases[j] : j \in 1..Len(StoredPool.bases)} :
        Stored.ingredients[1] \in {"80g " \o x, "1 " \o x}

\* C24: the calories of a stored synthetic recipe are 200, plus 130 when
\* its protein is a legume (beans, dal, chana, lentil, moong), plus 90 when
\* its base is starchy (rice, pasta, quinoa, grains), plus 80 when its base
\* is a flatbread (phulka, roti), each bonus on its own; they lie between
\* 200 and 500
C24_CalorieEstimate ==
    gen.pc = "done"
        => /\ Stored.cal =
                 200
                 + (IF \E w \in {"beans", "dal", "chana", "lentil", "moong"} :
                          In(w, StoredProtein) THEN 130 ELSE 0)
                 + (IF \E w \in {"rice", "pasta", "quinoa", "grains"} :
                          In(w, StoredBase) THEN 90 ELSE 0)
                 + (IF \E w \in {"phulka", "roti"} : In(w, StoredBase)
                    THEN 80 ELSE 0)
           /\ Stored.cal >= 200
           /\ Stored.cal <= 500

\* an Indian recipe of a legume on a flatbread was stored: 200 + 130 + 80
C24_Witness ==
    /\ gen.pc = "done"
    /\ StoredBase = "phulka/roti"
    /\ In("dal", StoredProtein)
    /\ Stored.cal = 410

\* ================================= the grocery list of the stored plan
MaxGroceryRuns == 1     \* button presses handled in a session of SpecGrocery

GenerateGrocery == GenerateFrom(Sidebars, MaxGroceryRuns)

\* free_chat_response("grocery_request", {}, "grocery list", payload) is
\* called while no handler runs
GroceryCall ==
    /\ chat.pc = "idle"
    /\ handler.pc = "idle"
    /\ \E sb \in Sidebars :
          chat' = [pc |-> "called", intent |-> "grocery_request",
                   meta |-> EmptyMeta, text |-> <<"grocery list">>,
                   cuisine |-> sb.cuisine, reply |-> NoReply]
    /\ UNCHANGED <<salt, chooseVars, calVars, planVars, appVars, parse, gen,
                   llm_calls>>

NextGrocery ==
    \/ GenerateGrocery
    \/ PbGather
    \/ PbPad
    \/ PbPoolDone
    \/ PbPlace
    \/ PbReturn
    \/ GenerateStore
    \/ GroceryCall
    \/ ChatRespond

SpecGrocery == Init /\ [][NextGrocery]_vars

\* the ingredient lines of the entries of a plan, day after day and slot
\* after slot
RECURSIVE DayLines(_, _)
DayLines(p, d) ==
    IF DayKey(d) \notin DOMAIN p.meals THEN <<>>
    ELSE SlotLines(p.meals[DayKey(d)], 1) \o DayLines(p, d + 1)

PlanLines(p) ==
    IF DayKey(0) \in DOMAIN p.meals THEN DayLines(p, 0)
    ELSE SlotLines(p.meals, 1)

\* C25: for the intent grocery_request the reply lists the distinct
\* ingredient lines of all days and slots of the stored plan, each once, in
\* the order of their first occurrence and at most 30 of them; without a
\* stored plan it is the "No plan generated yet" message
C25_GroceryAllDays ==
    [][(chat.pc = "called" /\ chat.intent = "grocery_request"
           /\ chat'.pc = "done")
          => chat'.reply =
                IF plan = NoPlan THEN Reply("no_plan_yet", <<>>)
                ELSE Reply("grocery_hints", Distinct(PlanLines(plan)))]_vars

\* -------------------------------------- a call run from start to end
\* safe_sample_recipes run on a Catalog until it returns or raises: the
\* steps of PbGather, PbPad, PbPoolDone, PbPlace and PbReturn in a row
RECURSIVE PbRun(_, _)
PbRun(cat, b) ==
    IF b.pc \in {"done", "raised"} THEN b
    ELSE IF b.pc = "gather" THEN PbRun(cat, PlanGather(cat, b))
    ELSE IF PadLooping(b)
    THEN PbRun(PlanPad(cat, b).cat, PlanPad(cat, b).b)
    ELSE IF b.pc = "pad" THEN PbRun(cat, PlanPoolDone(b))
    ELSE IF b.pc = "place" THEN PbRun(cat, PlanPlace(cat, b))
    ELSE PlanReturn(b)

\* the plan of the default sidebar built on the Catalog of a fresh process
FreshDefaultPlan == PbRun(SeedRecipes, PlanStart(DefaultRequest)).plan

\* C26: the plan built for a payload has the dish names and calories of
\* the plan built for it on the fresh Catalog, whatever earlier calls with
\* other payloads left in the Catalog
C26_HistoryIndependent ==
    (pb.pc = "done" /\ pb.args = DefaultRequest)
        => PlanView(pb.plan, 1) = PlanView(FreshDefaultPlan, 1)

\* ===================================== a failing build after a stored plan
MaxKeepRuns == 2     \* button presses handled in a session of SpecKeep

\* the user has the default sidebar until a plan is stored and then types
\* "a" and "i" into the dislikes and allergies boxes
KeepSidebars == IF plan = NoPlan THEN {DefaultSidebar} ELSE {HatingSidebar}

GenerateKeep == GenerateFrom(KeepSidebars, MaxKeepRuns)

AskSubmitKeep == AskSubmitWith(KeepSidebars, {<<"meal plan">>}, MaxKeepRuns)

NextKeep ==
    \/ GenerateKeep
    \/ PbGather
    \/ PbPad
    \/ PbPoolDone
    \/ PbPlace
    \/ PbReturn
    \/ GenerateStore
    \/ AskSubmitKeep
    \/ AskPlan
    \/ AskStore

SpecKeep == Init /\ [][NextKeep]_vars

\* C27: a step in which the build of the generate action or of the ask
\* action has raised leaves the stored plan as it was, and the stored plan
\* changes only in the step of a handler whose build has returned, to the
\* plan that build returned
C27_PlanKeptOnFailure ==
    [][/\ BuildRaised => plan' = plan
       /\ plan' # plan
             => /\ handler.pc \in {"generate", "ask_plan"}
                /\ pb.pc = "done"
                /\ plan' = pb.plan]_vars

\* a plan for the default sidebar is stored, and the press after it, whose
\* build raised, has ended with its error reply
C27_Witness ==
    /\ handler.pc = "idle"
    /\ runs = 2
    /\ plan # NoPlan
    /\ built_for.args = BuildArgs(DefaultSidebar, 1)
    /\ assistant_reply.kind \in {"Failed to generate plan: ",
                                 "Sorry - couldn't process that: "}

\* ------------------------------------------------- the urgent texts
\* C28: when the parser labels the text urgent, the reply of
\* free_chat_response for that label is the message to call emergency
\* services now
C28_UrgentGetsEmergency ==
    (/\ chat.pc = "done"
     /\ chat.intent = "urgent"
     /\ parse_message_intent(chat.text).intent = "urgent")
        => chat.reply = Reply("urgent", <<>>)

\* ------------------------------------------------ the plan phrases
\* the patterns of the safety, supplement and grocery categories
EarlierCategories ==
    {"urgent", "pregnancy", "allergic_reaction", "supplement_tablet",
     "supplement_query", "grocery_request"}

\* the text the parser matches its patterns on (line 775)
ParsedText == LowerText(Strip(parse.text))

\* C30: a text with the phrase "make me a" that matches no safety,
\* supplement or grocery pattern is labelled generate_plan, as a text
\* with any other phrase of the generate_plan category is
C30_MakeMeAPlan ==
    (/\ parse.pc = "done"
     /\ \E j \in 1..Len(ParsedText) : ParsedText[j] = "make me a"
     /\ \A c \in EarlierCategories : ~Matches(ParsedText, c))
        => parse.intent = "generate_plan"

\* ------------------------------------------------------ the name pools
\* no name stands at two places of a list
NoRepeat(names) ==
    \A a, b \in 1..Len(names) : a # b => names[a] # names[b]

\* C29: the name pool gathered for a meal and a cuisine token, the token
\* "global" and the empty token among them, and every pool the Plan
\* Builder keeps for a meal hold each dish name at most once
C29_PoolNamesOnce ==
    pb.pc \in {"pad", "gather", "place", "built", "done"}
        => /\ NoRepeat(pb.pool)
           /\ \A j \in 1..Len(pb.pools) : NoRepeat(pb.pools[j])

====
